---- MODULE Spec2Model ----
(***************************************************************************)
(* Verification model of the new-lease-on-life geospatial pipeline:        *)
(*   - scripts/utils.py: dirty, save_geodataframe, make_request_with_retry *)
(*   - scripts/extract_postcode_polygons.py and                            *)
(*     scripts/extract_stops_within_union.py: the staleness-gated stages   *)
(* The filesystem is a map from paths to modification times; exceptions    *)
(* are modelled as result values named after the Python exception raised.  *)
(***************************************************************************)
EXTENDS Integers, Sequences, FiniteSets, TLC

VARIABLES
    fs,          \* filesystem: path -> mtime, Absent when the path does not exist
    clock,       \* wall clock used to stamp written files
    outArg,      \* dirty(): the output_path argument of the call under test
    inArg,       \* dirty(): the input_paths argument of the call under test
    dResult,     \* dirty(): "pending", "True", "False", or the exception raised
    callerPc,    \* caller of dirty(): "call", "skip", "process" or "aborted"
    stage,       \* pipeline script currently running, "none" between runs
    pc,          \* position inside save_geodataframe: mkdir, to_file, to_parquet, return
    queue,       \* output files the running script still has to save, in order
    wrote,       \* files written so far by the current save_geodataframe call
    saveResult,  \* outcome of the latest save_geodataframe call
    cleanSince,  \* extract_stops_within_union completed and no input of it changed since
    runs,        \* number of script invocations so far
    max_retries,     \* make_request_with_retry: argument
    backoff_factor,  \* make_request_with_retry: argument
    attempt,         \* make_request_with_retry: loop variable of range(max_retries)
    delay,           \* make_request_with_retry: next delay to sleep
    sleeps,          \* delays passed to time.sleep so far, in order
    responses,       \* responses received from requests.get so far, in order
    requests,        \* number of requests.get calls issued so far
    rResult,         \* outcome of the call: pending, return value or exception
    hStops,          \* create_hulls: the input rows (MODE, transit_time_minutes in tenths)
    hCumul,          \* create_hulls: cumulative_stops computed for each (mode, tier) visited
    hResult,         \* create_hulls: pending, the saved hull records, or the exception
    tStops,          \* stops_by_transit_time.main: STOP_NAME of each row of the stops table
    tCache,          \* transit_time_cache directory: file name -> content and mtime
    tIndex,          \* position of the per-stop loop (1-based row)
    tCalls,          \* gmaps.directions calls made for each row in this run
    tHit,            \* rows whose cache file existed when the row was processed
    tWrites,         \* rows for which output.write_text ran in this run
    tOutcome,        \* per row: none, ok, skipped, or the exception that escaped
    stops_with_data, \* rows appended to stops_with_data, in order
    tPc,             \* loop, saved, nodata or aborted
    tRun,            \* number of the current invocation of main
    tPrevOk,         \* rows fetched successfully by the previous invocation
    candidate_rentals, \* distance.main: the rentals argument, one process_rental task each
    locations,       \* cache table locations: address -> "missing" or "stored"
    routes,          \* cache table routes: (origin, destination, mode) -> row or NoRow
    dPc,             \* distance.main: geocode, gather or done
    dTask,           \* per task: the (destination, mode) pair it is at and the await it waits in
    dTrace,          \* per task: what get_route_distance_time gave for each pair, in order
    geocodeCalls,    \* geocoding requests issued per address in this run
    routeRequests,   \* computeRoutes requests issued per key in this run
    rowsWritten,     \* cache.set_route calls per key in this run
    routeFailures,   \* routing calls per key that failed or found no route in this run
    locations0,      \* locations table when the run started
    routes0,         \* routes table when the run started
    sStops,          \* batch_isochrones_for_stops.scrape: number of rows of the stops table
    sExists,         \* per (stop, mode): "True" when its isochrone file exists
    limit,           \* scrape: the limit argument
    count,           \* scrape: the local counter
    sIndex,          \* position of the loop over iterate_stop_modes
    sIssued,         \* get_isochrone_mapbox calls made so far
    sFailed,         \* get_isochrone_mapbox calls that raised
    sLate,           \* get_isochrone_mapbox calls made while count >= limit
    sPc,             \* loop, returned (limit reached) or finished (loop exhausted)
    uResult,         \* unzip_archive: pending, skipped, extracted, or the exception raised
    cFrag,           \* consolidate_isochrones: contour tiers inside each fragment file
    cPc,             \* consolidate_isochrones.main: load, concat, done or aborted
    cMode,           \* index into MODES of the mode the current loop is at
    cTier,           \* index into ISOCHRONE_TIERS of the tier the second loop is at
    gdf_isochrones,  \* per mode: the fragment files whose frames were appended
    cWritten,        \* consolidated outputs saved in this run
    cResult,         \* exception that ended main, "none" otherwise
    fKinds,          \* fix_geojson: top-level shape of each input file's JSON
    fIndex,          \* process_directory: position of the loop over the globbed files
    fPc,             \* process_directory: loop or done
    total_files,     \* process_directory: counter
    successful_files, \* process_directory: counter
    cached_files     \* process_directory: counter

dirtyVars == <<outArg, inArg, dResult, callerPc>>
stageVars == <<stage, pc, queue, wrote, saveResult, cleanSince, runs>>
retryVars == <<max_retries, backoff_factor, attempt, delay, sleeps, responses, requests, rResult>>
hullVars == <<hStops, hCumul, hResult>>
transitVars == <<tStops, tCache, tIndex, tCalls, tHit, tWrites, tOutcome, stops_with_data,
                 tPc, tRun, tPrevOk>>
distanceVars == <<candidate_rentals, locations, routes, dPc, dTask, dTrace, geocodeCalls,
                  routeRequests, rowsWritten, routeFailures, locations0, routes0>>
scrapeVars == <<sStops, sExists, limit, count, sIndex, sIssued, sFailed, sLate, sPc>>
unzipVars == <<uResult>>
consolidateVars == <<cFrag, cPc, cMode, cTier, gdf_isochrones, cWritten, cResult>>
fixVars == <<fKinds, fIndex, fPc, total_files, successful_files, cached_files>>
vars == <<fs, clock, dirtyVars, stageVars, retryVars, hullVars, transitVars, distanceVars,
          scrapeVars, unzipVars, consolidateVars, fixVars>>
\* what the actions of one component leave alone
nonStageVars == <<dirtyVars, retryVars, hullVars, transitVars, distanceVars, scrapeVars,
     unzipVars, consolidateVars, fixVars>>
nonDirtyVars == <<fs, clock, stageVars, retryVars, hullVars, transitVars, distanceVars, scrapeVars,
     unzipVars, consolidateVars, fixVars>>
nonRetryVars == <<fs, clock, dirtyVars, stageVars, hullVars, transitVars, distanceVars, scrapeVars,
     unzipVars, consolidateVars, fixVars>>
nonHullVars == <<fs, clock, dirtyVars, stageVars, retryVars, transitVars, distanceVars, scrapeVars,
     unzipVars, consolidateVars, fixVars>>
nonTransitVars == <<fs, dirtyVars, stageVars, retryVars, hullVars, distanceVars, scrapeVars,
     unzipVars, consolidateVars, fixVars>>
nonDistanceVars ==
    <<fs, clock, dirtyVars, stageVars, retryVars, hullVars, transitVars, scrapeVars,
     unzipVars, consolidateVars, fixVars>>
nonScrapeVars ==
    <<fs, clock, dirtyVars, stageVars, retryVars, hullVars, transitVars, distanceVars,
     unzipVars, consolidateVars, fixVars>>

(***************************************************************************)
(* Bounds                                                                  *)
(***************************************************************************)
MaxClock == 3
MaxPaths == 2
MaxRuns == 3
MaxRetries == 4
MaxBackoff == 3
MaxStops == 4
MaxBatch == 3
MaxTransitRuns == 2
MaxRentals == 2
MaxScrapeStops == 2
MaxLimit == 2

(***************************************************************************)
(* Paths: pathlib.Path reduced to directory, stem and suffix               *)
(***************************************************************************)
Absent == 0

MkPath(d, s, e) == [dir |-> d, stem |-> s, ext |-> e]

\* scripts/extract_state_polygons.py
input_file == MkPath("boundaries", <<"SA4_2021_AUST_GDA2020">>, "parquet")
output_geojson == MkPath("state_polygons", <<"australian_states">>, "geojson")
output_parquet == MkPath("state_polygons", <<"australian_states">>, "parquet")

DirtyPaths == {input_file, output_geojson, output_parquet}

\* scripts/extract_postcode_polygons.py
POSTCODES_CSV == MkPath("root", <<"postcodes">>, "csv")
EPP_STOPS_GEOJSON == MkPath("data", <<"public_transport_stops">>, "parquet")
POSTCODE_POLYGONS == MkPath("POA_2021_AUST_GDA2020_SHP", <<"POA_2021_AUST_GDA2020">>, "parquet")
OUTPUT_ROOT == "data/geojson/ptv/boundaries"
Targets == <<"postcodes", "postcodes_with_trams", "postcodes_with_trams_trains">>
input_to_output_mapping(target) ==
    IF target = "postcodes"
    THEN [kind |-> "list", val |-> <<POSTCODE_POLYGONS, POSTCODES_CSV>>]
    ELSE [kind |-> "Path", val |-> POSTCODE_POLYGONS]
selected_output_file(target) == MkPath(OUTPUT_ROOT, <<"selected", target>>, "geojson")
unioned_output_file(target) == MkPath(OUTPUT_ROOT, <<"unioned", target>>, "geojson")

\* scripts/extract_stops_within_union.py
UNIONED_GEOJSON == MkPath(OUTPUT_ROOT, <<"unioned", "postcodes_with_trams_trains">>, "parquet")
STOPS_GEOJSON == MkPath("data", <<"public_transport_stops">>, "geojson")
LINES_GEOJSON == MkPath("data", <<"public_transport_lines">>, "geojson")
ALL_INPUTS == <<UNIONED_GEOJSON, STOPS_GEOJSON, LINES_GEOJSON>>
OUTPUT_STOPS_GEOJSON == MkPath("data/geojson/ptv", <<"stops_within_union">>, "geojson")
OUTPUT_PTV_LINES_WITHIN_UNION == MkPath("data/geojson/ptv", <<"lines_within_union">>, "geojson")
OUTPUT_PTV_LINES_WITHIN_UNION_METRO_TRAM ==
    MkPath("data/geojson/ptv", <<"lines_within_union_metro_tram">>, "geojson")
OUTPUT_PTV_LINES_WITHIN_UNION_METRO_TRAIN ==
    MkPath("data/geojson/ptv", <<"lines_within_union_metro_train">>, "geojson")
OUTPUT_PTV_LINES_WITHIN_UNION_REGIONAL_TRAIN ==
    MkPath("data/geojson/ptv", <<"lines_within_union_regional_train">>, "geojson")
ALL_OUTPUTS ==
    <<OUTPUT_STOPS_GEOJSON,
      OUTPUT_PTV_LINES_WITHIN_UNION,
      OUTPUT_PTV_LINES_WITHIN_UNION_METRO_TRAM,
      OUTPUT_PTV_LINES_WITHIN_UNION_METRO_TRAIN,
      OUTPUT_PTV_LINES_WITHIN_UNION_REGIONAL_TRAIN>>

\* Path.with_suffix(suffix): only the extension changes
with_suffix(p, suffix) == [p EXCEPT !.ext = suffix]

BSeq(S, n) == UNION {[1..k -> S] : k \in 0..n}

Range(s) == {s[k] : k \in DOMAIN s}

MinOf(S) == CHOOSE x \in S : \A y \in S : x <= y
MaxOf(S) == CHOOSE x \in S : \A y \in S : x >= y

\* Path.exists()
exists(p) == fs[p] # Absent

\* isinstance(x, Path): x = [x]
AsList(arg) == IF arg.kind = "Path" THEN <<arg.val>> ELSE arg.val

PyBool(b) == IF b THEN "True" ELSE "False"

(***************************************************************************)
(* Faulty variants of dirty() used to show that the properties below       *)
(* depend on the code.                                                     *)
(***************************************************************************)
\* stats the inputs before looking at the outputs
dirty_inputsFirst(output_path, input_paths) ==
    LET outs == AsList(output_path)
        ins == AsList(input_paths)
    IN  IF \E k \in DOMAIN ins : ~exists(ins[k]) THEN "FileNotFoundError"
        ELSE IF ins = <<>> THEN "ValueError"
        ELSE IF \E k \in DOMAIN outs : ~exists(outs[k]) THEN "True"
        ELSE IF outs = <<>> THEN "ValueError"
        ELSE PyBool(MinOf({fs[outs[k]] : k \in DOMAIN outs})
                      < MaxOf({fs[ins[k]] : k \in DOMAIN ins}))

\* compares with <= instead of <
dirty_lte(output_path, input_paths) ==
    LET outs == AsList(output_path)
        ins == AsList(input_paths)
    IN  IF \E k \in DOMAIN outs : ~exists(outs[k]) THEN "True"
        ELSE IF outs = <<>> THEN "ValueError"
        ELSE IF \E k \in DOMAIN ins : ~exists(ins[k]) THEN "FileNotFoundError"
        ELSE IF ins = <<>> THEN "ValueError"
        ELSE PyBool(MinOf({fs[outs[k]] : k \in DOMAIN outs})
                      <= MaxOf({fs[ins[k]] : k \in DOMAIN ins}))

\* min(..., default=inf): an empty output list compares as newer than any input
dirty_emptyFresh(output_path, input_paths) ==
    LET outs == AsList(output_path)
        ins == AsList(input_paths)
    IN  IF \E k \in DOMAIN outs : ~exists(outs[k]) THEN "True"
        ELSE IF \E k \in DOMAIN ins : ~exists(ins[k]) THEN "FileNotFoundError"
        ELSE IF ins = <<>> THEN "ValueError"
        ELSE IF outs = <<>> THEN "False"
        ELSE PyBool(MinOf({fs[outs[k]] : k \in DOMAIN outs})
                      < MaxOf({fs[ins[k]] : k \in DOMAIN ins}))

(***************************************************************************)
(* dirty(output_path, input_paths), scripts/utils.py                       *)
(* min() / max() over an empty generator raise ValueError; Path.stat() of  *)
(* a missing path raises FileNotFoundError.                                *)
(***************************************************************************)
dirty(output_path, input_paths) ==
    LET outs == AsList(output_path)
        ins == AsList(input_paths)
    IN  IF \E k \in DOMAIN outs : ~exists(outs[k]) THEN "True"
        ELSE IF outs = <<>> THEN "ValueError"
        ELSE IF \E k \in DOMAIN ins : ~exists(ins[k]) THEN "FileNotFoundError"
        ELSE IF ins = <<>> THEN "ValueError"
        ELSE PyBool(MinOf({fs[outs[k]] : k \in DOMAIN outs})
                      < MaxOf({fs[ins[k]] : k \in DOMAIN ins}))

(***************************************************************************)
(* The staleness-gated stages and save_geodataframe                        *)
(***************************************************************************)
SourceInputs ==
    {POSTCODES_CSV, EPP_STOPS_GEOJSON, POSTCODE_POLYGONS, STOPS_GEOJSON, LINES_GEOJSON}

StageOutputs ==
    UNION {{selected_output_file(Targets[k]), unioned_output_file(Targets[k])} :
             k \in DOMAIN Targets}
        \cup Range(ALL_OUTPUTS)

AllPaths ==
    DirtyPaths \cup SourceInputs \cup StageOutputs
        \cup {with_suffix(p, "parquet") : p \in StageOutputs}

NoPath == MkPath("", <<>>, "")
NoResult == [kind |-> "none", val |-> NoPath]
Raised == [kind |-> "raised", val |-> NoPath]
Returned(p) == [kind |-> "path", val |-> p]

StageIdle ==
    /\ stage = "none"
    /\ pc = "idle"
    /\ queue = <<>>
    /\ wrote = {}
    /\ saveResult = NoResult
    /\ cleanSince = FALSE
    /\ runs = 0

DirtyIdle ==
    /\ outArg = [kind |-> "list", val |-> <<>>]
    /\ inArg = [kind |-> "list", val |-> <<>>]
    /\ dResult = "pending"
    /\ callerPc = "call"

RetryIdle ==
    /\ max_retries = 0
    /\ backoff_factor = 1
    /\ attempt = 0
    /\ delay = 1
    /\ sleeps = <<>>
    /\ responses = <<>>
    /\ requests = 0
    /\ rResult = [kind |-> "pending", body |-> 0]

HullsIdle ==
    /\ hStops = <<>>
    /\ hCumul = <<>>
    /\ hResult = [kind |-> "pending", records |-> <<>>]

TransitIdle ==
    /\ tStops = <<>>
    /\ tCache = <<>>
    /\ tIndex = 1
    /\ tCalls = <<>>
    /\ tHit = {}
    /\ tWrites = {}
    /\ tOutcome = <<>>
    /\ stops_with_data = <<>>
    /\ tPc = "loop"
    /\ tRun = 1
    /\ tPrevOk = {}

DistanceIdle ==
    /\ candidate_rentals = <<>>
    /\ locations = <<>>
    /\ routes = <<>>
    /\ dPc = "geocode"
    /\ dTask = <<>>
    /\ dTrace = <<>>
    /\ geocodeCalls = <<>>
    /\ routeRequests = <<>>
    /\ rowsWritten = <<>>
    /\ routeFailures = <<>>
    /\ locations0 = <<>>
    /\ routes0 = <<>>

ScrapeIdle ==
    /\ sStops = 0
    /\ sExists = <<>>
    /\ limit = 0
    /\ count = 0
    /\ sIndex = 1
    /\ sIssued = 0
    /\ sFailed = 0
    /\ sLate = 0
    /\ sPc = "loop"

UnzipIdle == uResult = "pending"

ConsolidateIdle ==
    /\ cFrag = <<>>
    /\ cPc = "load"
    /\ cMode = 1
    /\ cTier = 1
    /\ gdf_isochrones = <<>>
    /\ cWritten = {}
    /\ cResult = "none"

FixIdle ==
    /\ fKinds = <<>>
    /\ fIndex = 1
    /\ fPc = "loop"
    /\ total_files = 0
    /\ successful_files = 0
    /\ cached_files = 0

\* the three components modelled last are at rest
LastIdle ==
    /\ UnzipIdle
    /\ ConsolidateIdle
    /\ FixIdle

\* every component added after the first three is at rest
OthersIdle ==
    /\ LastIdle
    /\ HullsIdle
    /\ TransitIdle
    /\ DistanceIdle
    /\ ScrapeIdle

\* the source snapshot exists, nothing has been derived yet
InitStage ==
    /\ fs = [p \in AllPaths |-> IF p \in SourceInputs THEN 1 ELSE Absent]
    /\ clock = 1
    /\ DirtyIdle
    /\ StageIdle
    /\ RetryIdle
    /\ OthersIdle

\* modification times a write may stamp: the clock has advanced or it has not
Stamps == {clock, IF clock < MaxClock THEN clock + 1 ELSE clock}

\* a file of ALL_INPUTS changed: the last extract_stops_within_union run is outdated
Invalidates(p) == p \in Range(ALL_INPUTS)

\* the source data is edited between two runs
TouchInput ==
    /\ stage = "none"
    /\ clock < MaxClock
    /\ clock' = clock + 1
    /\ \E p \in SourceInputs :
        /\ fs' = [fs EXCEPT ![p] = clock + 1]
        /\ cleanSince' = IF Invalidates(p) THEN FALSE ELSE cleanSince
    /\ UNCHANGED <<nonStageVars, stage, pc, queue, wrote, saveResult, runs>>

\* check_output_up_to_date(): the targets whose outputs are dirty
files_to_process ==
    SelectSeq(Targets,
        LAMBDA target :
            dirty([kind |-> "list",
                   val |-> <<selected_output_file(target), unioned_output_file(target)>>],
                  input_to_output_mapping(target)) = "True")

check_output_raises ==
    \E k \in DOMAIN Targets :
        dirty([kind |-> "list",
               val |-> <<selected_output_file(Targets[k]), unioned_output_file(Targets[k])>>],
              input_to_output_mapping(Targets[k])) \notin {"True", "False"}

RECURSIVE SavesFor(_)
SavesFor(work) ==
    IF work = <<>> THEN <<>>
    ELSE <<selected_output_file(Head(work)), unioned_output_file(Head(work))>>
            \o SavesFor(Tail(work))

\* extract_postcode_polygons(): staleness check, load of the inputs, then
\* two save_geodataframe calls per target that needs processing
RunExtractPostcodePolygons ==
    /\ stage = "none"
    /\ runs < MaxRuns
    /\ runs' = runs + 1
    /\ IF check_output_raises
          \/ (files_to_process # <<>>
                /\ \E p \in {POSTCODE_POLYGONS, POSTCODES_CSV, EPP_STOPS_GEOJSON} : ~exists(p))
       THEN UNCHANGED <<stage, pc, queue>>
       ELSE IF files_to_process = <<>>
       THEN UNCHANGED <<stage, pc, queue>>
       ELSE /\ stage' = "extract_postcode_polygons"
            /\ pc' = "mkdir"
            /\ queue' = SavesFor(files_to_process)
    /\ UNCHANGED <<fs, clock, nonStageVars, wrote, saveResult, cleanSince>>

\* extract_stops_within_union(): staleness check, load of the inputs, then
\* the four save_geodataframe calls of lines 102-109
RunExtractStopsWithinUnion ==
    /\ stage = "none"
    /\ runs < MaxRuns
    /\ runs' = runs + 1
    /\ LET d == dirty([kind |-> "list", val |-> ALL_OUTPUTS],
                      [kind |-> "list", val |-> ALL_INPUTS])
       IN  IF d = "True" /\ \A k \in DOMAIN ALL_INPUTS : exists(ALL_INPUTS[k])
           THEN /\ stage' = "extract_stops_within_union"
                /\ pc' = "mkdir"
                /\ queue' = <<OUTPUT_STOPS_GEOJSON,
                              OUTPUT_PTV_LINES_WITHIN_UNION,
                              OUTPUT_PTV_LINES_WITHIN_UNION_METRO_TRAM,
                              OUTPUT_PTV_LINES_WITHIN_UNION_METRO_TRAIN>>
           ELSE UNCHANGED <<stage, pc, queue>>
    /\ UNCHANGED <<fs, clock, nonStageVars, wrote, saveResult, cleanSince>>

\* save_geodataframe line 216: entry of the call and parent.mkdir
SaveMkdir ==
    /\ pc = "mkdir"
    /\ pc' = "to_file"
    /\ wrote' = {}
    /\ saveResult' = NoResult
    /\ UNCHANGED <<fs, clock, nonStageVars, stage, queue, cleanSince, runs>>

\* the running script dies with the exception raised inside save_geodataframe
Abort ==
    /\ stage' = "none"
    /\ pc' = "idle"
    /\ queue' = <<>>
    /\ saveResult' = Raised

\* save_geodataframe line 218: gdf.to_file(output_file, driver="GeoJSON")
SaveToFile ==
    /\ pc = "to_file"
    /\ \E t \in Stamps :
        /\ fs' = [fs EXCEPT ![Head(queue)] = t]
        /\ clock' = t
    /\ wrote' = wrote \cup {Head(queue)}
    /\ cleanSince' = IF Invalidates(Head(queue)) THEN FALSE ELSE cleanSince
    /\ pc' = "to_parquet"
    /\ UNCHANGED <<nonStageVars, stage, queue, saveResult, runs>>

\* line 218 raises: nothing is written
SaveToFileFails ==
    /\ pc = "to_file"
    /\ Abort
    /\ UNCHANGED <<fs, clock, nonStageVars, wrote, cleanSince, runs>>

\* save_geodataframe line 219: gdf.to_parquet(geoparquet_file, ...)
SaveToParquet ==
    /\ pc = "to_parquet"
    /\ LET geoparquet_file == with_suffix(Head(queue), "parquet")
       IN  /\ \E t \in Stamps :
                /\ fs' = [fs EXCEPT ![geoparquet_file] = t]
                /\ clock' = t
           /\ wrote' = wrote \cup {geoparquet_file}
           /\ cleanSince' = IF Invalidates(geoparquet_file) THEN FALSE ELSE cleanSince
    /\ pc' = "return"
    /\ UNCHANGED <<nonStageVars, stage, queue, saveResult, runs>>

\* a to_parquet failure swallowed instead of propagated (faulty variant)
SaveToParquetFails_swallowed ==
    /\ pc = "to_parquet"
    /\ pc' = "return"
    /\ UNCHANGED <<fs, clock, nonStageVars, stage, queue, wrote, saveResult, cleanSince, runs>>

\* line 219 raises after the GeoJSON file has been written
SaveToParquetFails ==
    /\ pc = "to_parquet"
    /\ Abort
    /\ UNCHANGED <<fs, clock, nonStageVars, wrote, cleanSince, runs>>

\* save_geodataframe line 226: return output_file; the script goes on to its
\* next save, or ends when this was the last one
SaveReturn ==
    /\ pc = "return"
    /\ saveResult' = Returned(Head(queue))
    /\ queue' = Tail(queue)
    /\ IF Tail(queue) = <<>>
       THEN /\ stage' = "none"
            /\ pc' = "idle"
            /\ cleanSince' = IF stage = "extract_stops_within_union" THEN TRUE ELSE cleanSince
       ELSE /\ pc' = "mkdir"
            /\ UNCHANGED <<stage, cleanSince>>
    /\ UNCHANGED <<fs, clock, nonStageVars, wrote, runs>>

NextStage ==
    \/ TouchInput
    \/ RunExtractPostcodePolygons
    \/ RunExtractStopsWithinUnion
    \/ SaveMkdir
    \/ SaveToFile
    \/ SaveToFileFails
    \/ SaveToParquet
    \/ SaveToParquetFails
    \/ SaveReturn

SpecStage == InitStage /\ [][NextStage]_vars

(***************************************************************************)
(* Specification of a single dirty() call from a stage:                    *)
(*     if not dirty(outputs, inputs): <skip>                               *)
(***************************************************************************)
PathArgs(S) ==
    {[kind |-> "Path", val |-> p] : p \in S}
        \cup {[kind |-> "list", val |-> s] : s \in BSeq(S, MaxPaths)}

DirtyFS ==
    {[p \in AllPaths |-> IF p \in DirtyPaths THEN g[p] ELSE Absent] :
        g \in [DirtyPaths -> {Absent} \cup (1..MaxClock)]}

InitDirty ==
    /\ fs \in DirtyFS
    /\ clock = MaxClock
    /\ outArg \in PathArgs(DirtyPaths)
    /\ inArg \in PathArgs(DirtyPaths)
    /\ dResult = "pending"
    /\ callerPc = "call"
    /\ StageIdle
    /\ RetryIdle
    /\ OthersIdle

DirtyCall ==
    /\ callerPc = "call"
    /\ dResult' = dirty(outArg, inArg)
    /\ callerPc' = CASE dResult' = "False" -> "skip"
                     [] dResult' = "True" -> "process"
                     [] OTHER -> "aborted"
    /\ UNCHANGED <<outArg, inArg, nonDirtyVars>>

NextDirty == DirtyCall

SpecDirty == InitDirty /\ [][NextDirty]_vars

(***************************************************************************)
(* make_request_with_retry(url, params, max_retries, backoff_factor),      *)
(* scripts/utils.py.  A response is its status code, whether its text      *)
(* parses as JSON, and its body (identified by the request it answers).    *)
(***************************************************************************)
StatusCodes == {200, 204, 304, 404, 429, 500}

Is2xx(status) == 200 <= status /\ status < 300

\* requests.Response.raise_for_status(): raises HTTPError for 4xx and 5xx
raise_for_status(status) == 400 <= status /\ status < 600

\* retries server errors as well (faulty variant)
IsRateLimited_or5xx(status) == status = 429 \/ status >= 500

\* line 141: response.status_code == 429
IsRateLimited(status) == status = 429

\* one attempt too many (faulty variant)
InRange_inclusive(i, n) == i <= n

\* line 139: for attempt in range(max_retries)
InRange(i, n) == i < n

\* delay += backoff_factor (faulty variant)
NextDelay_additive(d, factor) == d + factor

\* line 147: delay *= backoff_factor
NextDelay(d, factor) == d * factor

Pending == [kind |-> "pending", body |-> 0]

InitRetry ==
    /\ fs = [p \in AllPaths |-> Absent]
    /\ clock = 1
    /\ DirtyIdle
    /\ StageIdle
    /\ OthersIdle
    /\ max_retries \in 0..MaxRetries
    /\ backoff_factor \in 1..MaxBackoff
    /\ attempt = 0
    /\ delay = 1
    /\ sleeps = <<>>
    /\ responses = <<>>
    /\ requests = 0
    /\ rResult = Pending

\* lines 140-148: the request is answered 429; sleep, grow the delay, continue
RequestRateLimited ==
    /\ rResult = Pending
    /\ InRange(attempt, max_retries)
    /\ \E status \in StatusCodes : \E json \in BOOLEAN :
        /\ IsRateLimited(status)
        /\ responses' = Append(responses, [status |-> status, json |-> json])
    /\ requests' = requests + 1
    /\ sleeps' = Append(sleeps, delay)
    /\ delay' = NextDelay(delay, backoff_factor)
    /\ attempt' = attempt + 1
    /\ UNCHANGED <<max_retries, backoff_factor, rResult, nonRetryVars>>

\* lines 140, 149-150: any other response; raise_for_status, then response.json()
RequestAnswered ==
    /\ rResult = Pending
    /\ InRange(attempt, max_retries)
    /\ \E status \in StatusCodes : \E json \in BOOLEAN :
        /\ ~IsRateLimited(status)
        /\ responses' = Append(responses, [status |-> status, json |-> json])
        /\ rResult' = IF raise_for_status(status)
                        THEN [kind |-> "HTTPError", body |-> 0]
                      ELSE IF json
                        THEN [kind |-> "return", body |-> requests + 1]
                      ELSE [kind |-> "JSONDecodeError", body |-> 0]
    /\ requests' = requests + 1
    /\ UNCHANGED <<max_retries, backoff_factor, attempt, delay, sleeps, nonRetryVars>>

\* line 140: requests.get itself raises (connection error, timeout)
RequestFails ==
    /\ rResult = Pending
    /\ InRange(attempt, max_retries)
    /\ requests' = requests + 1
    /\ rResult' = [kind |-> "ConnectionError", body |-> 0]
    /\ UNCHANGED <<max_retries, backoff_factor, attempt, delay, sleeps, responses,
                   nonRetryVars>>

\* line 151: the loop ran out; raise Exception("Failed after ... retries ...")
RetriesExhausted ==
    /\ rResult = Pending
    /\ ~InRange(attempt, max_retries)
    /\ rResult' = [kind |-> "Exception", body |-> 0]
    /\ UNCHANGED <<max_retries, backoff_factor, attempt, delay, sleeps, responses,
                   requests, nonRetryVars>>

NextRetry ==
    \/ RequestRateLimited
    \/ RequestAnswered
    \/ RequestFails
    \/ RetriesExhausted

SpecRetry == InitRetry /\ [][NextRetry]_vars

(***************************************************************************)
(* Properties of dirty()                                                   *)
(***************************************************************************)
Outs == AsList(outArg)
Ins == AsList(inArg)
DirtyDone == dResult # "pending"
SomeOutputMissing == \E k \in DOMAIN Outs : ~exists(Outs[k])
AllOutputsExist == Outs # <<>> /\ \A k \in DOMAIN Outs : exists(Outs[k])
AllInputsExist == Ins # <<>> /\ \A k \in DOMAIN Ins : exists(Ins[k])
SomeInputMissing == \E k \in DOMAIN Ins : ~exists(Ins[k])
\* some output is strictly older than some input; a missing path counts as mtime 0
OlderThanSomeInput ==
    \E o \in Range(Outs) : \E i \in Range(Ins) : fs[o] < fs[i]

\* C1: dirty returns True whenever at least one output path does not exist,
\* whatever the inputs are (missing inputs, empty input list), without raising.
C1_MissingOutputIsDirty ==
    (DirtyDone /\ SomeOutputMissing) => dResult = "True"

C1_Witness ==
    /\ dResult = "True"
    /\ SomeOutputMissing
    /\ (Ins = <<>> \/ SomeInputMissing)

\* C2: when every output exists (and every input exists), dirty returns True
\* exactly when the oldest output is strictly older than the newest input;
\* equal modification times are not stale.
C2_StrictlyOlderIffDirty ==
    (DirtyDone /\ AllOutputsExist /\ AllInputsExist)
        => dResult = PyBool(OlderThanSomeInput)

C2_Witness ==
    /\ dResult = "False"
    /\ AllOutputsExist /\ AllInputsExist
    /\ \E o \in Range(Outs) : \E i \in Range(Ins) : fs[o] = fs[i]
    /\ Len(Outs) = 2

\* C3 (as claimed): with all outputs existing, a missing input counts as
\* modification time 0: the call returns the comparison result and never fails.
C3_MissingInputIsZero ==
    (DirtyDone /\ AllOutputsExist /\ Ins # <<>> /\ SomeInputMissing)
        => dResult = PyBool(OlderThanSomeInput)

\* C4 (as claimed): dirty with an empty output list raises a dedicated
\* staleness-check error, fatal to the calling stage.
C4_EmptyOutputsExplicitError ==
    (DirtyDone /\ Outs = <<>>)
        => (dResult = "StalenessCheckError" /\ callerPc = "aborted")

\* C4 (amended): dirty with an empty output list never returns False; it
\* raises the ValueError of min() over an empty sequence, which aborts the
\* calling stage.
C4_EmptyOutputsValueError ==
    (DirtyDone /\ Outs = <<>>)
        => (dResult = "ValueError" /\ callerPc = "aborted")

C4_Witness ==
    /\ DirtyDone /\ Outs = <<>> /\ AllInputsExist
    /\ callerPc = "aborted"

(***************************************************************************)
(* Properties of save_geodataframe and of the stages                       *)
(***************************************************************************)
\* C5: save_geodataframe returns its destination path only after the GeoJSON
\* file at the destination and the Parquet file with the same directory and
\* stem have both been written by this call; a call in which a write failed
\* raises and returns no path.
C5_ReturnsAfterBothWrites ==
    saveResult.kind = "path" =>
        LET output_file == saveResult.val
            companion == MkPath(output_file.dir, output_file.stem, "parquet")
        IN  /\ output_file.ext = "geojson"
            /\ {output_file, companion} \subseteq wrote
            /\ exists(output_file) /\ exists(companion)

C5_Witness ==
    /\ saveResult.kind = "path"
    /\ stage = "extract_postcode_polygons"
    /\ saveResult.val = unioned_output_file("postcodes")
    /\ with_suffix(saveResult.val, "parquet") \in wrote

\* the latest save_geodataframe call wrote p and raised before writing its
\* Parquet companion
FailedBeforeParquet(p) ==
    /\ saveResult = Raised
    /\ p \in wrote
    /\ with_suffix(p, "parquet") \notin wrote

\* C6 (as claimed): once save_geodataframe has written the GeoJSON encoding of
\* an artifact and failed before the Parquet encoding, the next run of
\* extract_postcode_polygons finds the artifact's target dirty and rebuilds it.
C6_HalfWrittenIsStale ==
    \A k \in DOMAIN Targets :
        \A p \in {selected_output_file(Targets[k]), unioned_output_file(Targets[k])} :
            (stage = "none" /\ FailedBeforeParquet(p))
                => Targets[k] \in Range(files_to_process)

\* C7 (as claimed): after extract_stops_within_union has run to completion and
\* while none of its inputs has changed, a further run stops at the staleness
\* check and saves nothing.
C7_SecondRunIsNoOp ==
    ~(cleanSince /\ stage = "extract_stops_within_union")

(***************************************************************************)
(* Properties of make_request_with_retry                                   *)
(***************************************************************************)
RECURSIVE Pow(_, _)
Pow(b, e) == IF e = 0 THEN 1 ELSE b * Pow(b, e - 1)

RetryDone == rResult.kind # "pending"
NumResponses == Len(responses)
AllRateLimited == \A i \in DOMAIN responses : responses[i].status = 429
\* the first N-1 responses are 429 and the N-th is a 200 carrying JSON
RateLimitedThenOk ==
    /\ NumResponses >= 1
    /\ \A i \in 1..(NumResponses - 1) : responses[i].status = 429
    /\ responses[NumResponses].status = 200
    /\ responses[NumResponses].json

\* C8: when every response is HTTP 429, make_request_with_retry issues exactly
\* max_retries requests and then raises the generic retries-exhausted
\* Exception, which is not a requests.HTTPError.
C8_ExhaustedAfterMaxRetries ==
    (RetryDone /\ AllRateLimited /\ rResult.kind # "ConnectionError")
        => /\ requests = max_retries
           /\ NumResponses = max_retries
           /\ rResult.kind = "Exception"
           /\ rResult.kind # "HTTPError"

C8_Witness ==
    /\ rResult.kind = "Exception"
    /\ max_retries = 3
    /\ NumResponses = 3
    /\ AllRateLimited

\* C9: when the first N-1 responses are 429 and the N-th is 200 (with a JSON
\* body), the call returns the N-th response's body after exactly N requests,
\* having slept 1, b, b^2, ..., b^(N-2) for backoff factor b.
C9_GeometricBackoffThenBody ==
    (RetryDone /\ RateLimitedThenOk)
        => /\ rResult = [kind |-> "return", body |-> NumResponses]
           /\ requests = NumResponses
           /\ NumResponses <= max_retries
           /\ Len(sleeps) = NumResponses - 1
           /\ \A i \in DOMAIN sleeps : sleeps[i] = Pow(backoff_factor, i - 1)

C9_Witness ==
    /\ rResult.kind = "return"
    /\ RateLimitedThenOk
    /\ NumResponses = 4
    /\ backoff_factor = 3
    /\ sleeps = <<1, 3, 9>>

\* C10 (as claimed): the first response whose status is neither 429 nor 2xx
\* ends the call with an HTTP error.
C10_NonRetryableIsHTTPError ==
    \A i \in DOMAIN responses :
        (responses[i].status # 429 /\ ~Is2xx(responses[i].status))
            => rResult.kind = "HTTPError"

\* C10 (amended): the first response whose status is neither 429 nor 2xx ends
\* the call at once, with no further request and no sleep after it, whatever
\* number of 429 responses preceded it; the call ends with an HTTP error
\* exactly when that status is 4xx or 5xx, and otherwise (a status below 400
\* such as 304) with the parsed body or a JSON decoding error.
C10_NonRetryableEndsCall ==
    \A i \in DOMAIN responses :
        (responses[i].status # 429 /\ ~Is2xx(responses[i].status))
            => /\ i = NumResponses
               /\ RetryDone
               /\ requests = i
               /\ Len(sleeps) = i - 1
               /\ (rResult.kind = "HTTPError") <=> (responses[i].status >= 400)
               /\ rResult.kind \in {"HTTPError", "return", "JSONDecodeError"}

C10_Witness ==
    /\ NumResponses = 3
    /\ responses[1].status = 429
    /\ responses[2].status = 429
    /\ responses[3].status = 500
    /\ rResult.kind = "HTTPError"
    /\ Len(sleeps) = 2

(***************************************************************************)
(* create_hulls(gdf), scripts/stops_by_transit_time.py.  A row is a stop    *)
(* with its MODE and its transit_time_minutes in tenths of a minute (main  *)
(* rounds the duration to one decimal); the point geometry of a row is     *)
(* identified by the row's index.                                          *)
(***************************************************************************)
HULL_TIER_SIZE == 5
PTV_MODES == <<"REGIONAL TRAIN", "METRO TRAIN", "METRO TRAM">>

\* MODE values that reach create_hulls: extract_stops_within_union keeps
\* every mode that is not a bus or coach, INTERSTATE TRAIN included
StopModes == {"METRO TRAIN", "METRO TRAM", "INTERSTATE TRAIN"}
\* 2.5, 4.0, 6.0 and 9.0 minutes
StopMinutes == {25, 40, 60, 90}

\* Series.round() / round(): n / d rounded to the nearest integer, halves to even
RoundHalfEven(n, d) ==
    LET q == n \div d
        r == n % d
    IN  IF 2 * r < d THEN q
        ELSE IF 2 * r > d THEN q + 1
        ELSE IF q % 2 = 0 THEN q ELSE q + 1

\* lines 116-118: (transit_time_minutes / tier_size).round() * tier_size
nearest_tier(tenths) == RoundHalfEven(tenths, 10 * HULL_TIER_SIZE) * HULL_TIER_SIZE

NaN == [kind |-> "nan", num |-> 0, den |-> 0]
Frac(n, d) == [kind |-> "num", num |-> n, den |-> d]

\* utils.min_max_normalize applied to one value of a series with the given
\* minimum and maximum; the float division 0 / 0 yields NaN
min_max_normalize(x, lo, hi) ==
    IF hi = lo THEN NaN ELSE Frac(x - lo, hi - lo)

\* lines 119-122: min_max_normalize(...) * 0.5 + 0.5, over the whole frame
nearest_tier_z(stops, tier) ==
    LET tiers == {nearest_tier(stops[k].minutes) : k \in DOMAIN stops}
        n == min_max_normalize(tier, MinOf(tiers), MaxOf(tiers))
    IN  IF n.kind = "nan" THEN NaN ELSE Frac(n.num + n.den, 2 * n.den)

\* line 129
mode_stops(stops, mode) == {k \in DOMAIN stops : stops[k].mode = mode}

RECURSIVE SortedSeq(_)
SortedSeq(S) == IF S = {} THEN <<>> ELSE <<MinOf(S)>> \o SortedSeq(S \ {MinOf(S)})

\* visits every tier twice (faulty variant)
all_tiers_twice(stops, mode) ==
    SortedSeq({nearest_tier(stops[k].minutes) : k \in mode_stops(stops, mode)})
        \o SortedSeq({nearest_tier(stops[k].minutes) : k \in mode_stops(stops, mode)})

\* line 132: sorted(mode_stops[...].unique())
all_tiers(stops, mode) ==
    SortedSeq({nearest_tier(stops[k].minutes) : k \in mode_stops(stops, mode)})

\* keeps only the stops exactly at the tier (faulty variant)
cumulative_stops_exact(stops, mode, tier) ==
    {k \in mode_stops(stops, mode) : nearest_tier(stops[k].minutes) = tier}

\* line 140: stops of the mode with nearest tier <= tier
cumulative_stops(stops, mode, tier) ==
    {k \in mode_stops(stops, mode) : nearest_tier(stops[k].minutes) <= tier}

\* skips only below two points (faulty variant)
TooFewPoints_two(n) == n < 2

\* line 142: len(cumulative_stops) < 3
TooFewPoints(n) == n < 3

\* lines 174-183: the record of one hull
hull_gdf(stops, mode, tier) ==
    [MODE |-> mode,
     transit_time_minutes_nearest_tier |-> tier,
     transit_time_minutes_nearest_tier_z |-> nearest_tier_z(stops, tier),
     point_count |-> Cardinality(cumulative_stops(stops, mode, tier)),
     points |-> cumulative_stops(stops, mode, tier)]

RECURSIVE TierLoop(_, _, _)
\* lines 138-184: the loop over the tiers of one mode
TierLoop(stops, mode, tiers) ==
    IF tiers = <<>> THEN <<>>
    ELSE (IF TooFewPoints(Cardinality(cumulative_stops(stops, mode, Head(tiers))))
          THEN <<>>
          ELSE <<hull_gdf(stops, mode, Head(tiers))>>)
            \o TierLoop(stops, mode, Tail(tiers))

RECURSIVE ModeLoop(_, _)
\* lines 128-184: the loop over PTV_MODES, giving hull_tiers
ModeLoop(stops, modes) ==
    IF modes = <<>> THEN <<>>
    ELSE TierLoop(stops, Head(modes), all_tiers(stops, Head(modes)))
            \o ModeLoop(stops, Tail(modes))

hull_tiers(stops) == ModeLoop(stops, PTV_MODES)

\* lines 196-198: the orders sort_values(ascending=False) may give
SortedDescending(recs) ==
    {s \in [DOMAIN recs -> Range(recs)] :
        /\ \A r \in Range(recs) :
             Cardinality({i \in DOMAIN s : s[i] = r})
                = Cardinality({i \in DOMAIN recs : recs[i] = r})
        /\ \A i, j \in DOMAIN s :
             i < j => s[i].transit_time_minutes_nearest_tier
                        >= s[j].transit_time_minutes_nearest_tier}

HullsPending == [kind |-> "pending", records |-> <<>>]

InitHulls ==
    /\ fs = [p \in AllPaths |-> Absent]
    /\ clock = 1
    /\ DirtyIdle
    /\ StageIdle
    /\ RetryIdle
    /\ LastIdle
    /\ TransitIdle
    /\ DistanceIdle
    /\ ScrapeIdle
    /\ hStops \in UNION {[1..n -> [mode : StopModes, minutes : StopMinutes]] : n \in 1..MaxStops}
    /\ hCumul = <<>>
    /\ hResult = HullsPending

\* create_hulls: pd.concat of an empty hull_tiers raises ValueError; otherwise
\* the records are sorted by tier, descending, and saved
CreateHulls ==
    /\ hResult = HullsPending
    /\ hCumul' = [mt \in UNION {{<<PTV_MODES[i], t>> : t \in Range(all_tiers(hStops, PTV_MODES[i]))} :
                                i \in DOMAIN PTV_MODES}
                    |-> cumulative_stops(hStops, mt[1], mt[2])]
    /\ IF hull_tiers(hStops) = <<>>
       THEN hResult' = [kind |-> "ValueError", records |-> <<>>]
       ELSE \E recs \in SortedDescending(hull_tiers(hStops)) :
                hResult' = [kind |-> "saved", records |-> recs]
    /\ UNCHANGED <<hStops, nonHullVars>>

NextHulls == CreateHulls

SpecHulls == InitHulls /\ [][NextHulls]_vars

(***************************************************************************)
(* Properties of create_hulls                                              *)
(***************************************************************************)
HullsDone == hResult.kind # "pending"
HullRecords == hull_tiers(hStops)
TiersOf(mode) == {nearest_tier(hStops[k].minutes) : k \in mode_stops(hStops, mode)}

\* C17: in create_hulls, for a fixed mode and two rounded tiers T < T2 present
\* for that mode, the cumulative subset used for T is contained in the one
\* used for T2, and each is the set of the mode's stops with tier at most T.
C17_CumulativeSubsetsNested ==
    HullsDone =>
        \A a, b \in DOMAIN hCumul :
            /\ hCumul[a] = {k \in DOMAIN hStops :
                              /\ hStops[k].mode = a[1]
                              /\ nearest_tier(hStops[k].minutes) <= a[2]}
            /\ (a[1] = b[1] /\ a[2] < b[2]) => hCumul[a] \subseteq hCumul[b]

C17_Witness ==
    /\ HullsDone
    /\ \E a, b \in DOMAIN hCumul :
        /\ a[1] = b[1] /\ a[2] < b[2]
        /\ hCumul[a] # {}
        /\ hCumul[a] # hCumul[b]

\* the records create_hulls emitted for one (mode, tier)
RecordsFor(mode, tier) ==
    {i \in DOMAIN hResult.records :
        /\ hResult.records[i].MODE = mode
        /\ hResult.records[i].transit_time_minutes_nearest_tier = tier}

\* C18: create_hulls emits a hull record for (mode, T) exactly when the
\* cumulative subset of that mode at T has at least 3 points, with that
\* count attached; a (mode, T) with fewer points is skipped and the loop goes
\* on, so a mode with only 2 points yields no record.
C18_HullOnlyFromThreePoints ==
    HullsDone =>
        /\ \A mt \in DOMAIN hCumul :
             Cardinality(RecordsFor(mt[1], mt[2]))
                = IF Cardinality(hCumul[mt]) >= 3 THEN 1 ELSE 0
        /\ \A i \in DOMAIN hResult.records :
             LET r == hResult.records[i]
                 mt == <<r.MODE, r.transit_time_minutes_nearest_tier>>
             IN  /\ mt \in DOMAIN hCumul
                 /\ r.point_count = Cardinality(hCumul[mt])
                 /\ r.point_count >= 3

\* metrics 4, 6, 9 with tier size 5: tier 5 is skipped, tier 10 has 3 points
C18_Witness ==
    /\ hResult.kind = "saved"
    /\ hStops = <<[mode |-> "METRO TRAIN", minutes |-> 40],
                  [mode |-> "METRO TRAIN", minutes |-> 60],
                  [mode |-> "METRO TRAIN", minutes |-> 90]>>
    /\ Cardinality(hCumul[<<"METRO TRAIN", 5>>]) = 2
    /\ RecordsFor("METRO TRAIN", 5) = {}
    /\ Len(hResult.records) = 1
    /\ hResult.records[1].transit_time_minutes_nearest_tier = 10
    /\ hResult.records[1].point_count = 3

\* C19 (as claimed): whenever at least one input stop belongs to a listed
\* mode, create_hulls completes and persists its (possibly empty) records.
C19_CompletesWithListedStop ==
    (HullsDone /\ \E k \in DOMAIN hStops : hStops[k].mode \in Range(PTV_MODES))
        => hResult.kind = "saved"

\* C20 (as claimed): the normalized tier of the record of (mode, T) is
\* 0.5 + 0.5 * (T - min_tier) / (max_tier - min_tier) over the tiers of that
\* mode, 0.75 when min_tier = max_tier, and lies in [0.5, 1.0].
C20_NormalizedTierPerMode ==
    HullsDone =>
        \A i \in DOMAIN hResult.records :
            LET r == hResult.records[i]
                z == r.transit_time_minutes_nearest_tier_z
                lo == MinOf(TiersOf(r.MODE))
                hi == MaxOf(TiersOf(r.MODE))
                expected == IF lo = hi THEN Frac(3, 4)
                            ELSE Frac((hi - lo) + (r.transit_time_minutes_nearest_tier - lo),
                                      2 * (hi - lo))
            IN  /\ z.kind = "num"
                /\ z.num * expected.den = expected.num * z.den
                /\ z.den <= 2 * z.num
                /\ z.num <= z.den

(***************************************************************************)
(* scripts/stops_by_transit_time.py: main, the per-stop loop with its      *)
(* file cache under transit_time_cache/                                    *)
(***************************************************************************)
\* STOP_NAME values, as character sequences; two of them share a file name
StopNames == { <<"A", " ", "b">>, <<"a", "_", "b">>, <<"O", "'", "c">> }

\* str.lower on the characters used
lower(c) == CASE c = "A" -> "a" [] c = "O" -> "o" [] OTHER -> c

\* str.replace of a single character by a (possibly empty) string
RECURSIVE replace(_, _, _)
replace(s, old, new) ==
    IF s = <<>> THEN <<>>
    ELSE (IF Head(s) = old THEN new ELSE <<Head(s)>>) \o replace(Tail(s), old, new)

normalised_stop_name(name) ==
    replace(replace(replace([k \in DOMAIN name |-> lower(name[k])], " ", <<"_">>),
                    ",", <<>>), "'", <<>>)
        \o <<"_transit_time.json">>

CacheFiles == {normalised_stop_name(n) : n \in StopNames}

\* leg["duration"]["value"] answers of the directions client, in seconds;
\* none of them is a rounding tie at one decimal of a minute
DurationSeconds == {150, 250, 450}

\* round(float(duration_minutes), 1) of seconds / 60, kept in tenths of a minute
round1(seconds) == RoundHalfEven(seconds * 10, 60)

\* contents of a cache file
NoFile == [kind |-> "absent", minutes |-> 0, tier |-> 0, mtime |-> Absent]
Unreadable == [kind |-> "corrupt", minutes |-> 0, tier |-> 0, mtime |-> 1]
\* rounds halves upwards (faulty variant)
main_nearest_tier_half_up(tenths) ==
    ((RoundHalfEven(tenths * 10, 10) + 5 * HULL_TIER_SIZE) \div (10 * HULL_TIER_SIZE))
        * HULL_TIER_SIZE

\* lines 251-254: round(round(float(minutes), 1) / tier_size) * tier_size
main_nearest_tier(tenths) ==
    RoundHalfEven(RoundHalfEven(tenths * 10, 10), 10 * HULL_TIER_SIZE) * HULL_TIER_SIZE

transit_times(minutes, now) ==
    [kind |-> "json", minutes |-> minutes, tier |-> main_nearest_tier(minutes), mtime |-> now]

\* output.exists(), variant that treats a file older than the run as missing
output_exists_fresh(file, now) == file.kind # "absent" /\ file.mtime >= now
\* output.exists()
output_exists(file, now) == file.kind # "absent"

\* how a gmaps.directions call can end without a usable leg
NoTransit == {"no_route", "malformed"}
\* exceptions of the googlemaps client, none of them a KeyError, IndexError,
\* ValueError or AttributeError
ClientErrors == {"ApiError", "Timeout", "TransportError"}

InitTransit ==
    /\ fs = [p \in AllPaths |-> Absent]
    /\ clock = 2
    /\ DirtyIdle
    /\ StageIdle
    /\ RetryIdle
    /\ LastIdle
    /\ HullsIdle
    /\ DistanceIdle
    /\ ScrapeIdle
    /\ tStops \in UNION {[1..n -> StopNames] : n \in 1..MaxBatch}
    /\ tCache \in [CacheFiles -> {NoFile, Unreadable, transit_times(round1(150), 1)}]
    /\ tIndex = 1
    /\ tCalls = [k \in DOMAIN tStops |-> 0]
    /\ tHit = {}
    /\ tWrites = {}
    /\ tOutcome = [k \in DOMAIN tStops |-> "none"]
    /\ stops_with_data = <<>>
    /\ tPc = "loop"
    /\ tRun = 1
    /\ tPrevOk = {}

InLoop == tPc = "loop" /\ tIndex <= Len(tStops)
output == normalised_stop_name(tStops[tIndex])
\* the row's cache file was there when the row was reached
NoteExisted == tHit' = IF tCache[output].kind # "absent" THEN tHit \cup {tIndex} ELSE tHit

\* lines 230-231 and 249-266: the file is loaded, the tier recomputed, the
\* record written back and the row appended
StopCacheHit ==
    /\ InLoop
    /\ output_exists(tCache[output], clock)
    /\ tCache[output].kind = "json"
    /\ NoteExisted
    /\ tCache' = [tCache EXCEPT ![output] = transit_times(tCache[output].minutes, clock)]
    /\ tWrites' = tWrites \cup {tIndex}
    /\ tOutcome' = [tOutcome EXCEPT ![tIndex] = "ok"]
    /\ stops_with_data' = Append(stops_with_data, tIndex)
    /\ tIndex' = tIndex + 1
    /\ UNCHANGED <<tStops, tCalls, tPc, tRun, tPrevOk, clock, nonTransitVars>>

\* line 231 raises json.JSONDecodeError, a ValueError, caught at line 268
StopCacheUnreadable ==
    /\ InLoop
    /\ output_exists(tCache[output], clock)
    /\ tCache[output].kind = "corrupt"
    /\ NoteExisted
    /\ tOutcome' = [tOutcome EXCEPT ![tIndex] = "skipped"]
    /\ tIndex' = tIndex + 1
    /\ UNCHANGED <<tStops, tCache, tCalls, tWrites, stops_with_data, tPc, tRun, tPrevOk,
                   clock, nonTransitVars>>

\* lines 233-266 with a usable leg
StopFetched ==
    /\ InLoop
    /\ ~output_exists(tCache[output], clock)
    /\ \E seconds \in DurationSeconds :
         tCache' = [tCache EXCEPT ![output] = transit_times(round1(seconds), clock)]
    /\ NoteExisted
    /\ tCalls' = [tCalls EXCEPT ![tIndex] = @ + 1]
    /\ tWrites' = tWrites \cup {tIndex}
    /\ tOutcome' = [tOutcome EXCEPT ![tIndex] = "ok"]
    /\ stops_with_data' = Append(stops_with_data, tIndex)
    /\ tIndex' = tIndex + 1
    /\ UNCHANGED <<tStops, tPc, tRun, tPrevOk, clock, nonTransitVars>>

\* get_transit_time returns (None, None): lines 66-67 or 79-81, then 239-241
StopNoTransit ==
    /\ InLoop
    /\ ~output_exists(tCache[output], clock)
    /\ \E why \in NoTransit : tOutcome' = [tOutcome EXCEPT ![tIndex] = "skipped"]
    /\ NoteExisted
    /\ tCalls' = [tCalls EXCEPT ![tIndex] = @ + 1]
    /\ tIndex' = tIndex + 1
    /\ UNCHANGED <<tStops, tCache, tWrites, stops_with_data, tPc, tRun, tPrevOk,
                   clock, nonTransitVars>>

\* gmaps.directions raises; neither line 79 nor line 268 catches it
StopClientRaises ==
    /\ InLoop
    /\ ~output_exists(tCache[output], clock)
    /\ \E e \in ClientErrors : tOutcome' = [tOutcome EXCEPT ![tIndex] = e]
    /\ NoteExisted
    /\ tCalls' = [tCalls EXCEPT ![tIndex] = @ + 1]
    /\ tPc' = "aborted"
    /\ UNCHANGED <<tStops, tCache, tIndex, tWrites, stops_with_data, tRun, tPrevOk,
                   clock, nonTransitVars>>

\* lines 272-274
FinishNoData ==
    /\ tPc = "loop"
    /\ tIndex > Len(tStops)
    /\ stops_with_data = <<>>
    /\ tPc' = "nodata"
    /\ UNCHANGED <<tStops, tCache, tIndex, tCalls, tHit, tWrites, tOutcome, stops_with_data,
                   tRun, tPrevOk, clock, nonTransitVars>>

\* lines 276-280: the result table is saved
FinishSave ==
    /\ tPc = "loop"
    /\ tIndex > Len(tStops)
    /\ stops_with_data # <<>>
    /\ tPc' = "saved"
    /\ UNCHANGED <<tStops, tCache, tIndex, tCalls, tHit, tWrites, tOutcome, stops_with_data,
                   tRun, tPrevOk, clock, nonTransitVars>>

\* main is invoked again later on the same stops table and cache directory
RunAgain ==
    /\ tPc # "loop"
    /\ tRun < MaxTransitRuns
    /\ tRun' = tRun + 1
    /\ clock' = clock + 1
    /\ tPrevOk' = {k \in DOMAIN tStops : tOutcome[k] = "ok" /\ tCalls[k] > 0}
    /\ tIndex' = 1
    /\ tCalls' = [k \in DOMAIN tStops |-> 0]
    /\ tHit' = {}
    /\ tWrites' = {}
    /\ tOutcome' = [k \in DOMAIN tStops |-> "none"]
    /\ stops_with_data' = <<>>
    /\ tPc' = "loop"
    /\ UNCHANGED <<tStops, tCache, nonTransitVars>>

NextTransit ==
    \/ StopCacheHit
    \/ StopCacheUnreadable
    \/ StopFetched
    \/ StopNoTransit
    \/ StopClientRaises
    \/ FinishNoData
    \/ FinishSave
    \/ RunAgain

SpecTransit == InitTransit /\ [][NextTransit]_vars

(***************************************************************************)
(* Properties of the per-stop loop                                         *)
(***************************************************************************)
\* rows the loop of this run has dealt with
Reached(k) == tOutcome[k] # "none"

\* C11: a row whose cache file exists when it is processed makes no call to
\* the routing client, whatever the file's age; a row without a cache file
\* makes exactly one call and, when that call succeeds, leaves a cache file,
\* so the following run makes no call for it.
C11_CacheHitMakesNoCall ==
    \A k \in DOMAIN tStops :
        /\ (Reached(k) /\ k \in tHit) => tCalls[k] = 0
        /\ (Reached(k) /\ k \notin tHit) => tCalls[k] = 1
        /\ (tOutcome[k] = "ok" /\ k \notin tHit) =>
              /\ tCache[normalised_stop_name(tStops[k])].kind = "json"
              /\ k \in tWrites
        /\ (Reached(k) /\ k \in tPrevOk) => (k \in tHit /\ tCalls[k] = 0)
        /\ ~Reached(k) => tCalls[k] = 0

\* second run: a row fetched by the first run is served from its older file
C11_Witness ==
    /\ tRun = 2
    /\ \E k \in tPrevOk :
         /\ tOutcome[k] = "ok"
         /\ tCalls[k] = 0
    /\ \E k \in DOMAIN tStops :
         /\ Reached(k) /\ k \notin tHit /\ tCalls[k] = 1

\* C12 (as claimed): a cache file that exists when its row is processed is
\* not written during that run.
C12_CacheHitNeverWrites == tHit \cap tWrites = {}

\* C14 (as claimed): whatever way the routing client fails for one row, the
\* loop goes on to every later row and a run with data reaches the save step.
C14_ClientFailureOnlySkipsStop ==
    tPc # "loop" =>
        /\ \A k \in DOMAIN tStops : Reached(k)
        /\ tIndex = Len(tStops) + 1
        /\ stops_with_data # <<>> => tPc = "saved"

(***************************************************************************)
(* new_lease_on_life/maps/distance.py over new_lease_on_life/cache.py:     *)
(* main gathers one process_rental task per rental; a task runs without    *)
(* interruption between two awaits                                         *)
(***************************************************************************)
Rentals == {"r1", "r2"}
destinations == <<"d1">>
travel_modes == <<"DRIVE", "TRANSIT">>
Addresses == Rentals \cup Range(destinations)
RouteKeys == Rentals \X Range(destinations) \X Range(travel_modes)

\* rentals lists: the same address repeated, or followed by one other address
RentalLists ==
    {l \in UNION {[1..n -> Rentals] : n \in 1..MaxRentals} :
        \A k \in DOMAIN l : k < Len(l) => l[k] = "r1"}

\* the nested loops of process_rental, flattened
NPairs == Len(destinations) * Len(travel_modes)
PairAt(j) == <<destinations[((j - 1) \div Len(travel_modes)) + 1],
               travel_modes[((j - 1) % Len(travel_modes)) + 1]>>
KeyOf(t, j) == <<candidate_rentals[t], PairAt(j)[1], PairAt(j)[2]>>

\* rows of the routes table
\* Python values of the geojson component: None, a dict, or a str of JSON text
PyNone == [repr |-> "None", val |-> ""]
polyline_to_geojson(encoded_polyline) == [repr |-> "dict", val |-> encoded_polyline]
json_dumps(obj) == [repr |-> "str", val |-> obj.val]

\* the first route of the computeRoutes answer for a key; in this model a
\* DRIVE route carries a polyline and a TRANSIT route does not
ApiRoute(key) ==
    [distanceMeters |-> 1200, duration |-> "600s",
     encodedPolyline |-> IF key[3] = "DRIVE" THEN "enc" ELSE ""]

\* line 80
geojson_of(route) ==
    IF route.encodedPolyline # "" THEN polyline_to_geojson(route.encodedPolyline) ELSE PyNone

\* rows of the routes table
NoRow == [kind |-> "none", distance |-> 0, duration |-> "", geojson |-> PyNone]
\* line 82: what cache.set_route stores, and so what cache.get_route gives back
StoredRow(route) ==
    [kind |-> "row", distance |-> route.distanceMeters, duration |-> route.duration,
     geojson |-> IF geojson_of(route) # PyNone THEN json_dumps(geojson_of(route)) ELSE PyNone]
\* line 83: what the call that fetched the route returns
Fetched(route) ==
    [kind |-> "row", distance |-> route.distanceMeters, duration |-> route.duration,
     geojson |-> geojson_of(route)]

\* what a call of get_route_distance_time gave to process_rental
Gave(key, kind, row) == [key |-> key, kind |-> kind, row |-> row]

\* cache.get_location result with both coordinates
has_latlng(locs, a) == locs[a] = "stored"

\* the first await get_route_distance_time reaches from the given check on,
\* or "hit" when it returns the cached row
next_await(from, locs, rts, key) ==
    IF from = "origin" /\ ~has_latlng(locs, key[1]) THEN "geo_origin"
    ELSE IF from \in {"origin", "dest"} /\ ~has_latlng(locs, key[2]) THEN "geo_dest"
    ELSE IF rts[key] # NoRow THEN "hit"
    ELSE "post"

\* process_rental from pair j on, up to its next await: cache hits return
\* without suspending, so the loop runs on through them
RECURSIVE run_to_await(_, _, _, _, _)
run_to_await(t, j, from, locs, rts) ==
    IF j > NPairs THEN [pair |-> j, pc |-> "done", gave |-> <<>>]
    ELSE LET key == KeyOf(t, j)
             nxt == next_await(from, locs, rts, key)
         IN  IF nxt = "hit"
             THEN LET r == run_to_await(t, j + 1, "origin", locs, rts)
                  IN  [r EXCEPT !.gave = <<Gave(key, "row", rts[key])>> \o @]
             ELSE [pair |-> j, pc |-> nxt, gave |-> <<>>]

\* the except clause of process_rental ends the task
after_exception_abort(j) == NPairs + 1
\* the except clause of process_rental: log and go on with the next pair
after_exception(j) == j + 1

\* task t runs on from pair j and check `from` with the tables as given
Continue(t, j, from, locs, rts, given) ==
    LET r == run_to_await(t, j, from, locs, rts)
        key == IF r.pair <= NPairs THEN KeyOf(t, r.pair) ELSE KeyOf(t, NPairs)
    IN  /\ dTask' = [dTask EXCEPT ![t] = [pair |-> r.pair, pc |-> r.pc]]
        /\ dTrace' = [dTrace EXCEPT ![t] = @ \o given \o r.gave]
        /\ geocodeCalls' =
             IF r.pc = "geo_origin" THEN [geocodeCalls EXCEPT ![key[1]] = @ + 1]
             ELSE IF r.pc = "geo_dest" THEN [geocodeCalls EXCEPT ![key[2]] = @ + 1]
             ELSE geocodeCalls
        /\ routeRequests' =
             IF r.pc = "post" THEN [routeRequests EXCEPT ![key] = @ + 1] ELSE routeRequests

\* an earlier run over some of these addresses left the tables: a routes row
\* refers to two stored locations
InitDistance ==
    /\ fs = [p \in AllPaths |-> Absent]
    /\ clock = 1
    /\ DirtyIdle
    /\ StageIdle
    /\ RetryIdle
    /\ LastIdle
    /\ HullsIdle
    /\ TransitIdle
    /\ ScrapeIdle
    /\ candidate_rentals \in RentalLists
    /\ locations \in [Addresses -> {"missing", "stored"}]
    /\ \A a \in Addresses \ (Range(candidate_rentals) \cup Range(destinations)) :
         locations[a] = "missing"
    /\ routes \in [RouteKeys -> {NoRow} \cup {StoredRow(ApiRoute(key)) : key \in RouteKeys}]
    /\ \A key \in RouteKeys : routes[key] \in {NoRow, StoredRow(ApiRoute(key))}
    /\ \A key \in RouteKeys :
         routes[key] # NoRow => (has_latlng(locations, key[1]) /\ has_latlng(locations, key[2]))
    /\ dPc = "geocode"
    /\ dTask = [t \in DOMAIN candidate_rentals |-> [pair |-> 1, pc |-> "new"]]
    /\ dTrace = [t \in DOMAIN candidate_rentals |-> <<>>]
    /\ geocodeCalls = [a \in Addresses |-> 0]
    /\ routeRequests = [key \in RouteKeys |-> 0]
    /\ rowsWritten = [key \in RouteKeys |-> 0]
    /\ routeFailures = [key \in RouteKeys |-> 0]
    /\ locations0 = locations
    /\ routes0 = routes

\* main lines 144-153: every unique address is geocoded, the answers stored
MainGeocode ==
    /\ dPc = "geocode"
    /\ LET addresses == Range(candidate_rentals) \cup Range(destinations)
       IN  /\ geocodeCalls' = [a \in Addresses |->
                                 IF a \in addresses THEN geocodeCalls[a] + 1 ELSE geocodeCalls[a]]
           /\ \E ok \in SUBSET addresses :
                locations' = [a \in Addresses |-> IF a \in ok THEN "stored" ELSE locations[a]]
    /\ dPc' = "gather"
    /\ UNCHANGED <<candidate_rentals, routes, dTask, dTrace, routeRequests, rowsWritten,
                   routeFailures, locations0, routes0, nonDistanceVars>>

\* main lines 155-156: the gathered tasks start in order, each up to its first await
TaskStart(t) ==
    /\ dPc = "gather"
    /\ dTask[t].pc = "new"
    /\ \A u \in DOMAIN dTask : u < t => dTask[u].pc # "new"
    /\ Continue(t, 1, "origin", locations, routes, <<>>)
    /\ UNCHANGED <<candidate_rentals, locations, routes, dPc, rowsWritten, routeFailures,
                   locations0, routes0, nonDistanceVars>>

AllStarted == dPc = "gather" /\ \A u \in DOMAIN dTask : dTask[u].pc # "new"
Here(t) == KeyOf(t, dTask[t].pair)

\* lines 35-37: the origin's coordinates arrive and are stored
OriginGeocoded(t) ==
    /\ AllStarted
    /\ dTask[t].pc = "geo_origin"
    /\ locations' = [locations EXCEPT ![Here(t)[1]] = "stored"]
    /\ Continue(t, dTask[t].pair, "dest", locations', routes, <<>>)
    /\ UNCHANGED <<candidate_rentals, routes, dPc, rowsWritten, routeFailures,
                   locations0, routes0, nonDistanceVars>>

\* lines 45-47: the destination's coordinates arrive and are stored
DestGeocoded(t) ==
    /\ AllStarted
    /\ dTask[t].pc = "geo_dest"
    /\ locations' = [locations EXCEPT ![Here(t)[2]] = "stored"]
    /\ Continue(t, dTask[t].pair, "route", locations', routes, <<>>)
    /\ UNCHANGED <<candidate_rentals, routes, dPc, rowsWritten, routeFailures,
                   locations0, routes0, nonDistanceVars>>

\* lines 38-40 and 48-50: geocoding failed, get_route_distance_time returns None
GeocodeFails(t) ==
    /\ AllStarted
    /\ dTask[t].pc \in {"geo_origin", "geo_dest"}
    /\ Continue(t, dTask[t].pair + 1, "origin", locations, routes,
                <<Gave(Here(t), "None", NoRow)>>)
    /\ UNCHANGED <<candidate_rentals, locations, routes, dPc, rowsWritten, routeFailures,
                   locations0, routes0, nonDistanceVars>>

\* lines 70-83: a route came back and is stored
RouteStored(t) ==
    /\ AllStarted
    /\ dTask[t].pc = "post"
    /\ routes' = [routes EXCEPT ![Here(t)] = StoredRow(ApiRoute(Here(t)))]
    /\ rowsWritten' = [rowsWritten EXCEPT ![Here(t)] = @ + 1]
    /\ Continue(t, dTask[t].pair + 1, "origin", locations, routes',
                <<Gave(Here(t), "row", Fetched(ApiRoute(Here(t))))>>)
    /\ UNCHANGED <<candidate_rentals, locations, dPc, routeFailures,
                   locations0, routes0, nonDistanceVars>>

\* lines 73-75: the answer has no routes, get_route_distance_time returns None
RouteNotFound(t) ==
    /\ AllStarted
    /\ dTask[t].pc = "post"
    /\ routeFailures' = [routeFailures EXCEPT ![Here(t)] = @ + 1]
    /\ Continue(t, dTask[t].pair + 1, "origin", locations, routes,
                <<Gave(Here(t), "None", NoRow)>>)
    /\ UNCHANGED <<candidate_rentals, locations, routes, dPc, rowsWritten,
                   locations0, routes0, nonDistanceVars>>

\* lines 70-71: the request or raise_for_status raises; process_rental catches it
RouteRequestFails(t) ==
    /\ AllStarted
    /\ dTask[t].pc = "post"
    /\ routeFailures' = [routeFailures EXCEPT ![Here(t)] = @ + 1]
    /\ Continue(t, after_exception(dTask[t].pair), "origin", locations, routes,
                <<Gave(Here(t), "error", NoRow)>>)
    /\ UNCHANGED <<candidate_rentals, locations, routes, dPc, rowsWritten,
                   locations0, routes0, nonDistanceVars>>

\* lines 156-159: every task has returned
MainReturns ==
    /\ AllStarted
    /\ \A t \in DOMAIN dTask : dTask[t].pc = "done"
    /\ dPc' = "done"
    /\ UNCHANGED <<candidate_rentals, locations, routes, dTask, dTrace, geocodeCalls,
                   routeRequests, rowsWritten, routeFailures, locations0, routes0,
                   nonDistanceVars>>

NextDistance ==
    \/ MainGeocode
    \/ MainReturns
    \/ \E t \in DOMAIN dTask :
         \/ TaskStart(t)
         \/ OriginGeocoded(t)
         \/ DestGeocoded(t)
         \/ GeocodeFails(t)
         \/ RouteStored(t)
         \/ RouteNotFound(t)
         \/ RouteRequestFails(t)

SpecDistance == InitDistance /\ [][NextDistance]_vars

(***************************************************************************)
(* Properties of the route cache                                           *)
(***************************************************************************)
\* C13: a routing call that fails or finds no route stores no routes row for
\* its key (the key has a row only if some call for it succeeded), and
\* process_rental still goes through every (destination, mode) pair in order.
C13_FailureStoresNothingAndGoesOn ==
    /\ \A key \in RouteKeys :
         (routeFailures[key] > 0 /\ rowsWritten[key] = 0) => routes[key] = NoRow
    /\ \A t \in DOMAIN dTrace :
         /\ Len(dTrace[t]) <= NPairs
         /\ \A j \in DOMAIN dTrace[t] : dTrace[t][j].key = KeyOf(t, j)
         /\ dTask[t].pc = "done" => Len(dTrace[t]) = NPairs

\* a task whose first pair failed at the routing call and whose second pair
\* then got a route
C13_Witness ==
    /\ dPc = "done"
    /\ \E t \in DOMAIN dTrace :
         /\ dTrace[t][1].kind = "error"
         /\ routeFailures[KeyOf(t, 1)] > 0
         /\ routes[KeyOf(t, 1)] = NoRow
         /\ dTrace[t][2].kind = "row"
         /\ rowsWritten[KeyOf(t, 2)] > 0

\* C16 (as claimed): a key that is in the routes table is answered with the
\* stored row and no routing request, and an address whose coordinates are
\* stored is not geocoded again during the run.
C16_StoredIsNeverFetchedAgain ==
    /\ \A key \in RouteKeys :
         routes0[key] # NoRow =>
            /\ routeRequests[key] = 0
            /\ \A t \in DOMAIN dTrace : \A j \in DOMAIN dTrace[t] :
                 dTrace[t][j].key = key => dTrace[t][j] = Gave(key, "row", routes0[key])
    /\ \A a \in Addresses : has_latlng(locations0, a) => geocodeCalls[a] = 0

(***************************************************************************)
(* scripts/batch_isochrones_for_stops.py: scrape(limit)                    *)
(***************************************************************************)
TRANSPORT_MODES == <<"foot", "bike", "car">>

\* iterate_stop_modes: every stop with every transport mode, in order
NItems == sStops * Len(TRANSPORT_MODES)

\* the limit test, variant that lets one more request through
LimitReached_after(c, l) == c > l
\* the limit test of the loop: count >= limit
LimitReached(c, l) == c >= l

InitScrape ==
    /\ fs = [p \in AllPaths |-> Absent]
    /\ clock = 1
    /\ DirtyIdle
    /\ StageIdle
    /\ RetryIdle
    /\ LastIdle
    /\ HullsIdle
    /\ TransitIdle
    /\ DistanceIdle
    /\ sStops \in 1..MaxScrapeStops
    /\ sExists \in [1..NItems -> {"True", "False"}]
    /\ limit \in 0..MaxLimit
    /\ count = 0
    /\ sIndex = 1
    /\ sIssued = 0
    /\ sFailed = 0
    /\ sLate = 0
    /\ sPc = "loop"

AtItem == sPc = "loop" /\ sIndex <= NItems
\* the request goes out: bookkeeping of the call itself
Issue ==
    /\ sIssued' = sIssued + 1
    /\ sLate' = IF count >= limit THEN sLate + 1 ELSE sLate

\* lines 150-152: the file is there, the item is skipped
SkipExisting ==
    /\ AtItem
    /\ sExists[sIndex] = "True"
    /\ sIndex' = sIndex + 1
    /\ UNCHANGED <<sStops, sExists, limit, count, sIssued, sFailed, sLate, sPc, nonScrapeVars>>

\* lines 155-157
LimitReturn ==
    /\ AtItem
    /\ sExists[sIndex] = "False"
    /\ LimitReached(count, limit)
    /\ sPc' = "returned"
    /\ UNCHANGED <<sStops, sExists, limit, count, sIndex, sIssued, sFailed, sLate,
                   nonScrapeVars>>

\* lines 159-181: the isochrone arrives, is written, and is counted
ScrapeSaved ==
    /\ AtItem
    /\ sExists[sIndex] = "False"
    /\ ~LimitReached(count, limit)
    /\ Issue
    /\ sExists' = [sExists EXCEPT ![sIndex] = "True"]
    /\ count' = count + 1
    /\ sIndex' = sIndex + 1
    /\ UNCHANGED <<sStops, limit, sFailed, sPc, nonScrapeVars>>

\* lines 168, 183-184: the call raises requests.HTTPError; count is untouched
ScrapeHTTPError ==
    /\ AtItem
    /\ sExists[sIndex] = "False"
    /\ ~LimitReached(count, limit)
    /\ Issue
    /\ sFailed' = sFailed + 1
    /\ sIndex' = sIndex + 1
    /\ UNCHANGED <<sStops, sExists, limit, count, sPc, nonScrapeVars>>

\* lines 168, 185-186: the call raises another exception, such as the one of
\* exhausted retries; count is untouched
ScrapeOtherError ==
    /\ AtItem
    /\ sExists[sIndex] = "False"
    /\ ~LimitReached(count, limit)
    /\ Issue
    /\ sFailed' = sFailed + 1
    /\ sIndex' = sIndex + 1
    /\ UNCHANGED <<sStops, sExists, limit, count, sPc, nonScrapeVars>>

\* the generator is exhausted
ScrapeLoopEnds ==
    /\ sPc = "loop"
    /\ sIndex > NItems
    /\ sPc' = "finished"
    /\ UNCHANGED <<sStops, sExists, limit, count, sIndex, sIssued, sFailed, sLate,
                   nonScrapeVars>>

NextScrape ==
    \/ SkipExisting
    \/ LimitReturn
    \/ ScrapeSaved
    \/ ScrapeHTTPError
    \/ ScrapeOtherError
    \/ ScrapeLoopEnds

SpecScrape == InitScrape /\ [][NextScrape]_vars

(***************************************************************************)
(* Properties of scrape                                                    *)
(***************************************************************************)
\* C15 (as claimed): in one run at most limit isochrone requests are issued,
\* whichever of them succeed or fail.
C15_IssuedAtMostLimit == sIssued <= limit

\* C15 (amended): the limit bounds the isochrones saved, not the requests: at
\* most limit requests succeed in a run, no request is issued once limit of
\* them have succeeded, and every failed request is issued on top of those.
C15_SavedAtMostLimit ==
    /\ count <= limit
    /\ sLate = 0
    /\ sIssued = count + sFailed
    /\ sPc = "returned" => count = limit

\* the limit was reached after more than limit requests
C15_Witness ==
    /\ sPc = "returned"
    /\ limit > 0
    /\ count = limit
    /\ sFailed > 0
    /\ sIssued > limit

(***************************************************************************)
(* Further properties of create_hulls                                      *)
(***************************************************************************)
\* indices of the emitted records of one mode
RecordsOfMode(mode) == {i \in DOMAIN hResult.records : hResult.records[i].MODE = mode}

\* C21 (as claimed): stops tagged with a mode outside the fixed list, with
\* at least 3 points at some tier, still yield hull records under their mode.
C21_UnlistedModePassesThrough ==
    HullsDone =>
        \A mode \in StopModes :
            Cardinality(mode_stops(hStops, mode)) >= 3 => RecordsOfMode(mode) # {}

\* C30: among the records of one mode there is at most one per tier, each
\* has point_count >= 3, point_count grows strictly with the tier, and the
\* record of the mode's largest tier counts every stop of the mode.
C30_RecordsOfOneMode ==
    HullsDone =>
        \A mode \in StopModes \cup Range(PTV_MODES) :
            \A i \in RecordsOfMode(mode) :
                LET r == hResult.records[i]
                IN  /\ r.point_count >= 3
                    /\ \A j \in RecordsOfMode(mode) :
                         LET q == hResult.records[j]
                         IN  /\ (i # j) => r.transit_time_minutes_nearest_tier
                                             # q.transit_time_minutes_nearest_tier
                             /\ (r.transit_time_minutes_nearest_tier
                                   < q.transit_time_minutes_nearest_tier)
                                  => r.point_count < q.point_count
                    /\ (r.transit_time_minutes_nearest_tier = MaxOf(TiersOf(mode)))
                          => r.point_count = Cardinality(mode_stops(hStops, mode))

\* one mode with two records: 3 points at the lower tier, all 4 at the higher
C30_Witness ==
    /\ hResult.kind = "saved"
    /\ Len(hResult.records) = 2
    /\ hResult.records[1].MODE = hResult.records[2].MODE
    /\ hResult.records[1].transit_time_minutes_nearest_tier = 10
    /\ hResult.records[1].point_count = 4
    /\ hResult.records[2].transit_time_minutes_nearest_tier = 5
    /\ hResult.records[2].point_count = 3

(***************************************************************************)
(* Further properties of make_request_with_retry                           *)
(***************************************************************************)
\* C26 (as claimed): a call that issued k requests slept exactly k - 1 times.
C26_SleepsOnlyBetweenAttempts ==
    (RetryDone /\ requests >= 1) => Len(sleeps) = requests - 1

(***************************************************************************)
(* Properties of the tier rounding                                         *)
(***************************************************************************)
Abs(x) == IF x < 0 THEN -x ELSE x

\* C23: the tier main stores for a stop is a multiple of the tier size within
\* half a tier of the metric, a metric exactly half-way goes to the even
\* multiple, and create_hulls recomputes the same tier from the stored metric.
C23_TierRoundingConsistent ==
    \A f \in DOMAIN tCache :
        tCache[f].kind = "json" =>
            LET m == tCache[f].minutes
                tier == tCache[f].tier
            IN  /\ tier % HULL_TIER_SIZE = 0
                /\ 2 * Abs(m - 10 * tier) <= 10 * HULL_TIER_SIZE
                /\ (2 * Abs(m - 10 * tier) = 10 * HULL_TIER_SIZE)
                      => (tier \div HULL_TIER_SIZE) % 2 = 0
                /\ tier = nearest_tier(m)

\* 2.5 minutes went down to tier 0 and 7.5 minutes up to tier 10 in this run
C23_Witness ==
    /\ tPc = "saved"
    /\ \E f, g \in DOMAIN tCache :
         /\ tCache[f] = [kind |-> "json", minutes |-> 25, tier |-> 0, mtime |-> clock]
         /\ tCache[g] = [kind |-> "json", minutes |-> 75, tier |-> 10, mtime |-> clock]

(***************************************************************************)
(* Further properties of the route cache                                   *)
(***************************************************************************)
\* C27 (as claimed): every triple get_route_distance_time returns for a key,
\* from the cache or from the call that stored it, is the same triple in the
\* same representation.
C27_HitEqualsMiss ==
    \A t, u \in DOMAIN dTrace :
        \A i \in DOMAIN dTrace[t] : \A j \in DOMAIN dTrace[u] :
            (/\ dTrace[t][i].key = dTrace[u][j].key
             /\ dTrace[t][i].kind = "row"
             /\ dTrace[u][j].kind = "row")
                => dTrace[t][i].row = dTrace[u][j].row

\* C28 (as claimed): in one run at most one routing request is issued and at
\* most one row written per key, under every interleaving of the tasks.
C28_OneRequestPerKey ==
    \A key \in RouteKeys :
        /\ routeRequests[key] <= 1
        /\ rowsWritten[key] <= 1

(***************************************************************************)
(* scripts/utils.py: unzip_archive(zip_path).  The extraction directory is *)
(* zip_path.parent / zip_path.stem; a directory that does not exist and a  *)
(* directory without files both give an empty rglob listing.               *)
(***************************************************************************)
MaxMembers == 3

zip_path == MkPath("data/originals", <<"archive">>, "zip")
extract_to == "data/originals/archive"
MemberNames == <<"a", "b", "c", "d">>
Member(k) == MkPath(extract_to, <<MemberNames[k]>>, "shp")
Members == {Member(k) : k \in 1..MaxMembers}
UnzipPaths == {zip_path} \cup Members

\* [f for f in extract_to.rglob("*") if f.is_file()]
RECURSIVE rglob_files(_)
rglob_files(k) ==
    IF k > MaxMembers THEN <<>>
    ELSE (IF exists(Member(k)) THEN <<Member(k)>> ELSE <<>>) \o rglob_files(k + 1)

unzip_check == dirty([kind |-> "list", val |-> rglob_files(1)],
                     [kind |-> "Path", val |-> zip_path])

InitUnzip ==
    /\ fs \in [UnzipPaths -> 0..MaxClock]
    /\ clock = MaxClock
    /\ uResult = "pending"
    /\ DirtyIdle
    /\ StageIdle
    /\ RetryIdle
    /\ HullsIdle
    /\ TransitIdle
    /\ DistanceIdle
    /\ ScrapeIdle
    /\ ConsolidateIdle
    /\ FixIdle

\* dirty(...) returns False: nothing is extracted
UnzipSkips ==
    /\ uResult = "pending"
    /\ unzip_check = "False"
    /\ uResult' = "skipped"
    /\ UNCHANGED <<fs, clock, dirtyVars, stageVars, retryVars, hullVars, transitVars,
                   distanceVars, scrapeVars, consolidateVars, fixVars>>

\* dirty(...) returns True: extractall writes every member of the archive
UnzipExtracts ==
    /\ uResult = "pending"
    /\ unzip_check = "True"
    /\ fs' = [p \in UnzipPaths |-> IF p \in Members THEN clock ELSE fs[p]]
    /\ uResult' = "extracted"
    /\ UNCHANGED <<clock, dirtyVars, stageVars, retryVars, hullVars, transitVars,
                   distanceVars, scrapeVars, consolidateVars, fixVars>>

\* dirty(...) raises; unzip_archive has no handler, the exception leaves it
UnzipRaises ==
    /\ uResult = "pending"
    /\ unzip_check \notin {"True", "False"}
    /\ uResult' = unzip_check
    /\ UNCHANGED <<fs, clock, dirtyVars, stageVars, retryVars, hullVars, transitVars,
                   distanceVars, scrapeVars, consolidateVars, fixVars>>

NextUnzip ==
    \/ UnzipSkips
    \/ UnzipExtracts
    \/ UnzipRaises

SpecUnzip == InitUnzip /\ [][NextUnzip]_vars

\* C24: after unzip_archive has been called on an existing archive, the call
\* has returned normally and the extraction directory holds the extracted
\* files, also when the directory was missing or empty before the call.
C24_EmptyTargetIsExtracted ==
    (uResult # "pending" /\ exists(zip_path)) =>
        /\ uResult \in {"skipped", "extracted"}
        /\ \E m \in Members : exists(m)

(***************************************************************************)
(* scripts/consolidate_isochrones.py: main().  The first loop loads the    *)
(* fragment files of each mode, the second loop concatenates and saves one *)
(* output per mode and tier.  A fragment file is described by the contour  *)
(* tiers of its polygons and by whether it has the MODE column.            *)
(***************************************************************************)
MaxModes == 1
MaxFragments == 1

MODES == <<"car", "bike", "foot">>
ISOCHRONE_TIERS == <<"15", "10", "5">>
OUTPUT_DIR == "data/isochrones_concatenated"
RunModes == {MODES[k] : k \in 1..MaxModes}
TierNames == Range(ISOCHRONE_TIERS)

FragmentNames == <<"isochrone_1", "isochrone_2", "isochrone_3">>
modality_isochrone_path(mode) == "data/geojson_fixed/" \o mode
Fragment(mode, k) == MkPath(modality_isochrone_path(mode), <<FragmentNames[k]>>, "geojson")
Fragments(mode) == {Fragment(mode, k) : k \in 1..MaxFragments}
isochrone_concatenated_path(mode, tier) == MkPath(OUTPUT_DIR \o "/" \o mode, <<tier>>, "geojson")
ConsolidateOutputs == {isochrone_concatenated_path(m, t) : m \in RunModes, t \in TierNames}
AllFragments == UNION {Fragments(m) : m \in RunModes}
ConsolidatePaths ==
    AllFragments \cup ConsolidateOutputs
        \cup {with_suffix(p, "parquet") : p \in ConsolidateOutputs}

\* what a fragment file can hold: every tier or not the 5 minute one, with or
\* without the MODE column
FragmentKinds ==
    {[tiers |-> {"15", "10", "5"}, MODE |-> TRUE],
     [tiers |-> {"15", "10"}, MODE |-> TRUE],
     [tiers |-> {"15", "10", "5"}, MODE |-> FALSE]}
FragmentTime == 2

\* list(Path(...).rglob("*.geojson")) over the fragment directory of a mode
RECURSIVE input_files_from(_, _)
input_files_from(mode, k) ==
    IF k > MaxFragments THEN <<>>
    ELSE (IF exists(Fragment(mode, k)) THEN <<Fragment(mode, k)>> ELSE <<>>)
            \o input_files_from(mode, k + 1)
input_files(mode) == input_files_from(mode, 1)

\* list((OUTPUT_DIR / mode).rglob("*.geojson"))
RECURSIVE output_files_from(_, _)
output_files_from(mode, k) ==
    IF k > Len(ISOCHRONE_TIERS) THEN <<>>
    ELSE LET p == isochrone_concatenated_path(mode, ISOCHRONE_TIERS[k])
         IN  (IF exists(p) THEN <<p>> ELSE <<>>) \o output_files_from(mode, k + 1)
output_files(mode) == output_files_from(mode, 1)

mode_dirty(mode) == dirty([kind |-> "list", val |-> output_files(mode)],
                          [kind |-> "list", val |-> input_files(mode)])

\* the files whose three frames are appended: those with a MODE column
has_MODE(f) == cFrag[f].MODE
appended(mode) == SelectSeq(input_files(mode), has_MODE)

\* g["source_file"].values[0] of the frame a loaded fragment gave for a tier
\* fails when the frame has no rows
frame_is_empty(f, tier) == tier \notin cFrag[f].tiers

tier_dirty(mode, tier) ==
    dirty([kind |-> "Path", val |-> isochrone_concatenated_path(mode, tier)],
          [kind |-> "list", val |-> gdf_isochrones[mode]])

InitConsolidate ==
    /\ \E fragments \in [AllFragments -> {Absent, FragmentTime}] :
       \E outputs \in [ConsolidateOutputs -> {Absent, 1, MaxClock}] :
            fs = [p \in ConsolidatePaths |->
                    IF p \in AllFragments THEN fragments[p]
                    ELSE outputs[with_suffix(p, "geojson")]]
    /\ clock = MaxClock
    /\ cFrag \in [AllFragments -> FragmentKinds]
    /\ \A f \in DOMAIN cFrag :
        fs[f] = Absent => cFrag[f] = [tiers |-> {"15", "10", "5"}, MODE |-> TRUE]
    /\ cPc = "load"
    /\ cMode = 1
    /\ cTier = 1
    /\ gdf_isochrones = [m \in RunModes |-> <<>>]
    /\ cWritten = {}
    /\ cResult = "none"
    /\ DirtyIdle
    /\ StageIdle
    /\ RetryIdle
    /\ HullsIdle
    /\ TransitIdle
    /\ DistanceIdle
    /\ ScrapeIdle
    /\ UnzipIdle
    /\ FixIdle

nonConsolidateVars == <<dirtyVars, stageVars, retryVars, hullVars, transitVars, distanceVars,
                        scrapeVars, unzipVars, fixVars>>

\* the first loop moves to the next mode, or the second loop starts
NextMode ==
    IF cMode < MaxModes
    THEN cMode' = cMode + 1 /\ cPc' = "load"
    ELSE cMode' = 1 /\ cPc' = "concat"

\* the second loop moves to the next tier, the next mode, or main returns
NextTier ==
    IF cTier < Len(ISOCHRONE_TIERS)
    THEN cTier' = cTier + 1 /\ cMode' = cMode /\ cPc' = "concat"
    ELSE IF cMode < MaxModes
    THEN cTier' = 1 /\ cMode' = cMode + 1 /\ cPc' = "concat"
    ELSE cTier' = cTier /\ cMode' = cMode /\ cPc' = "done"

\* first loop: the outputs of the mode are not older than its fragments
LoadSkips ==
    /\ cPc = "load"
    /\ mode_dirty(MODES[cMode]) = "False"
    /\ NextMode
    /\ UNCHANGED <<fs, clock, cFrag, cTier, gdf_isochrones, cWritten, cResult,
                   nonConsolidateVars>>

\* first loop: every fragment with a MODE column gives one frame per tier
LoadAppends ==
    /\ cPc = "load"
    /\ mode_dirty(MODES[cMode]) = "True"
    /\ gdf_isochrones' = [gdf_isochrones EXCEPT ![MODES[cMode]] = appended(MODES[cMode])]
    /\ NextMode
    /\ UNCHANGED <<fs, clock, cFrag, cTier, cWritten, cResult, nonConsolidateVars>>

\* first loop: dirty raises and main ends with the exception
LoadRaises ==
    /\ cPc = "load"
    /\ mode_dirty(MODES[cMode]) \notin {"True", "False"}
    /\ cResult' = mode_dirty(MODES[cMode])
    /\ cPc' = "aborted"
    /\ UNCHANGED <<fs, clock, cFrag, cMode, cTier, gdf_isochrones, cWritten,
                   nonConsolidateVars>>

\* second loop: no frame was appended for the mode
TierNoFrames ==
    /\ cPc = "concat"
    /\ Len(gdf_isochrones[MODES[cMode]]) = 0
    /\ NextTier
    /\ UNCHANGED <<fs, clock, cFrag, gdf_isochrones, cWritten, cResult, nonConsolidateVars>>

\* second loop: a frame of the tier has no rows, values[0] raises IndexError
TierIndexError ==
    /\ cPc = "concat"
    /\ Len(gdf_isochrones[MODES[cMode]]) # 0
    /\ \E k \in DOMAIN gdf_isochrones[MODES[cMode]] :
        frame_is_empty(gdf_isochrones[MODES[cMode]][k], ISOCHRONE_TIERS[cTier])
    /\ cResult' = "IndexError"
    /\ cPc' = "aborted"
    /\ UNCHANGED <<fs, clock, cFrag, cMode, cTier, gdf_isochrones, cWritten,
                   nonConsolidateVars>>

\* second loop: the output of the tier is not older than the loaded fragments
TierFresh ==
    /\ cPc = "concat"
    /\ Len(gdf_isochrones[MODES[cMode]]) # 0
    /\ \A k \in DOMAIN gdf_isochrones[MODES[cMode]] :
        ~frame_is_empty(gdf_isochrones[MODES[cMode]][k], ISOCHRONE_TIERS[cTier])
    /\ tier_dirty(MODES[cMode], ISOCHRONE_TIERS[cTier]) = "False"
    /\ NextTier
    /\ UNCHANGED <<fs, clock, cFrag, gdf_isochrones, cWritten, cResult, nonConsolidateVars>>

\* second loop: concat, dissolve and save_geodataframe (GeoJSON and Parquet)
TierSaved ==
    /\ cPc = "concat"
    /\ Len(gdf_isochrones[MODES[cMode]]) # 0
    /\ \A k \in DOMAIN gdf_isochrones[MODES[cMode]] :
        ~frame_is_empty(gdf_isochrones[MODES[cMode]][k], ISOCHRONE_TIERS[cTier])
    /\ tier_dirty(MODES[cMode], ISOCHRONE_TIERS[cTier]) = "True"
    /\ LET p == isochrone_concatenated_path(MODES[cMode], ISOCHRONE_TIERS[cTier])
       IN  /\ fs' = [fs EXCEPT ![p] = clock, ![with_suffix(p, "parquet")] = clock]
           /\ cWritten' = cWritten \cup {p}
    /\ NextTier
    /\ UNCHANGED <<clock, cFrag, gdf_isochrones, cResult, nonConsolidateVars>>

NextConsolidate ==
    \/ LoadSkips
    \/ LoadAppends
    \/ LoadRaises
    \/ TierNoFrames
    \/ TierIndexError
    \/ TierFresh
    \/ TierSaved

SpecConsolidate == InitConsolidate /\ [][NextConsolidate]_vars

\* the fragment files of a mode that have a polygon of the tier
members(mode, tier) ==
    {f \in Fragments(mode) : exists(f) /\ cFrag[f].MODE /\ tier \in cFrag[f].tiers}

\* C22: a (mode, tier) group without member fragments is passed over: main
\* never ends with an exception at a mode that has no fragment files, nor at
\* a tier that no loaded fragment has a polygon of.
C22_EmptyGroupIsPassedOver ==
    cPc = "aborted" =>
        IF cResult = "IndexError"
        THEN members(MODES[cMode], ISOCHRONE_TIERS[cTier]) # {}
        ELSE input_files(MODES[cMode]) # <<>>

\* C25: when main has returned, every tier that some fragment file of the
\* mode has polygons of has its consolidated output, whatever the other
\* outputs of the mode looked like before the run.
C25_MissingTierIsRegenerated ==
    cPc = "done" =>
        \A m \in RunModes : \A t \in TierNames :
            members(m, t) # {} => exists(isochrone_concatenated_path(m, t))

(***************************************************************************)
(* scripts/fix_geojson.py: process_directory(stops, input_dir, output_dir) *)
(* over an existing input directory.  Each input file is described by the  *)
(* top-level shape of its JSON; the file names are those the scraper       *)
(* writes, isochrone_<stop id>_<name>.geojson.                             *)
(***************************************************************************)
MaxFixFiles == 2

FixNames == <<"isochrone_1_a", "isochrone_2_b", "isochrone_3_c">>
geojson_file(k) == MkPath("data/geojson/car", <<FixNames[k]>>, "geojson")
out_file(k) == MkPath("data/geojson_fixed/car", <<FixNames[k]>>, "geojson")
FixInputs == {geojson_file(k) : k \in 1..MaxFixFiles}
FixOutputs == {out_file(k) : k \in 1..MaxFixFiles}
JsonShapes == {"polygons", "features", "neither", "not JSON"}

\* input_path.glob("**/*.geojson"): the indices of the existing input files
RECURSIVE glob_from(_)
glob_from(k) ==
    IF k > MaxFixFiles THEN <<>>
    ELSE (IF exists(geojson_file(k)) THEN <<k>> ELSE <<>>) \o glob_from(k + 1)
glob == glob_from(1)

\* fix_geojson(stops, input_file, output_file): what it returns and whether it
\* writes output_file
fix_geojson(k) ==
    IF dirty([kind |-> "Path", val |-> out_file(k)],
             [kind |-> "Path", val |-> geojson_file(k)]) = "False"
    THEN [success |-> TRUE, written |-> FALSE]
    ELSE IF fKinds[k] \in {"polygons", "features"}
    THEN [success |-> TRUE, written |-> TRUE]
    ELSE [success |-> FALSE, written |-> FALSE]

InitFix ==
    /\ \E ins \in [1..MaxFixFiles -> {Absent, 2}] :
       \E outs \in [1..MaxFixFiles -> {Absent, 1, MaxClock}] :
            fs = [p \in FixInputs \cup FixOutputs |->
                    LET k == CHOOSE j \in 1..MaxFixFiles : p \in {geojson_file(j), out_file(j)}
                    IN  IF p = geojson_file(k) THEN ins[k] ELSE outs[k]]
    /\ clock = MaxClock
    /\ fKinds \in [1..MaxFixFiles -> JsonShapes]
    /\ \A k \in 1..MaxFixFiles : ~exists(geojson_file(k)) => fKinds[k] = "polygons"
    /\ fIndex = 1
    /\ fPc = "loop"
    /\ total_files = 0
    /\ successful_files = 0
    /\ cached_files = 0
    /\ DirtyIdle
    /\ StageIdle
    /\ RetryIdle
    /\ HullsIdle
    /\ TransitIdle
    /\ DistanceIdle
    /\ ScrapeIdle
    /\ UnzipIdle
    /\ ConsolidateIdle

nonFixVars == <<dirtyVars, stageVars, retryVars, hullVars, transitVars, distanceVars,
                scrapeVars, unzipVars, consolidateVars>>

FixAt == fPc = "loop" /\ fIndex <= Len(glob)

\* out_file.exists(): counted as cached and passed over
FixCached ==
    /\ FixAt
    /\ exists(out_file(glob[fIndex]))
    /\ total_files' = total_files + 1
    /\ cached_files' = cached_files + 1
    /\ fIndex' = fIndex + 1
    /\ UNCHANGED <<fs, clock, fKinds, fPc, successful_files, nonFixVars>>

\* fix_geojson returns True
FixSucceeds ==
    /\ FixAt
    /\ ~exists(out_file(glob[fIndex]))
    /\ fix_geojson(glob[fIndex]).success
    /\ fs' = IF fix_geojson(glob[fIndex]).written
             THEN [fs EXCEPT ![out_file(glob[fIndex])] = clock]
             ELSE fs
    /\ total_files' = total_files + 1
    /\ successful_files' = successful_files + 1
    /\ fIndex' = fIndex + 1
    /\ UNCHANGED <<clock, fKinds, fPc, cached_files, nonFixVars>>

\* fix_geojson returns False: no polygons or features array, or not JSON
FixFails ==
    /\ FixAt
    /\ ~exists(out_file(glob[fIndex]))
    /\ ~fix_geojson(glob[fIndex]).success
    /\ total_files' = total_files + 1
    /\ fIndex' = fIndex + 1
    /\ UNCHANGED <<fs, clock, fKinds, fPc, successful_files, cached_files, nonFixVars>>

\* the loop is exhausted: return total_files, successful_files, cached_files
FixReturns ==
    /\ fPc = "loop"
    /\ fIndex > Len(glob)
    /\ fPc' = "done"
    /\ UNCHANGED <<fs, clock, fKinds, fIndex, total_files, successful_files, cached_files,
                   nonFixVars>>

NextFix ==
    \/ FixCached
    \/ FixSucceeds
    \/ FixFails
    \/ FixReturns

SpecFix == InitFix /\ [][NextFix]_vars

\* C29: when process_directory has returned, no existing output file is
\* older than the input file it was made from.
C29_NoOutputOlderThanInput ==
    fPc = "done" =>
        \A k \in 1..MaxFixFiles :
            (exists(geojson_file(k)) /\ exists(out_file(k)))
                => fs[out_file(k)] >= fs[geojson_file(k)]

====
